---- MODULE Spec2Model ----
(***************************************************************************)
(* Model of the HMMER post-processing pipelines of analyze_hmmer:          *)
(*   - counts pipeline   (src/unnamed/part_000)                            *)
(*   - matches pipeline  (src/matches_pipeline.js)                         *)
(*   - first pipeline    (src/main.js)                                     *)
(*                                                                         *)
(* JavaScript strings are tuples of one-character strings, so that split,  *)
(* replace and parse are computed character by character.  A JavaScript    *)
(* number is the one-element tuple <<n>> and NaN the empty tuple.  Bit     *)
(* scores are held in tenths (hmmsearch prints them with one decimal).     *)
(***************************************************************************)
EXTENDS Integers, Sequences, FiniteSets, TLC

VARIABLES
    mode,          \* which program runs: "hits", "strip", "count", "lev",
                   \* "match", "loop"
    prog,          \* hit selection: "counts" | "matches" | "main"
    coverage,      \* hit selection: config.hmm_coverage as <<num, den>>
    hpc,           \* hit selection: "read" (in the line loop) | "done"
    hits,          \* hit selection: the lines read so far (history)
    cands,         \* hit selection: per line read, <<entry>> when the line
                   \* reached the grouping step and <<>> when it was skipped
    parsedData,    \* main.js parseFullHMMOutput: parsedData
    bestEntries,   \* bestEntries, as <<[key, val]>> in insertion order
    bed,           \* bedContent / the returned list
    stripOp,       \* canonicalization: which operation is applied
    stripPrev,     \* canonicalization: the value before the last application
    stripVal,      \* canonicalization: the current value
    stripN,        \* canonicalization: number of applications so far
    seqMap,        \* counts pipeline: seqMap, as <<[key, val]>> in insertion order
    mpc,           \* counts pipeline: "idle" (between units) | "pass" (inside
                   \* mapFastaSeqs) | "counted" (countSeqs has returned) |
                   \* "written" (writeCSV has returned)
    modelName,     \* mapFastaSeqs: modelName of the running pass
    fastqName,     \* mapFastaSeqs: fastqName of the running pass
    target_name,   \* mapFastaSeqs: target_name (<<>> is null)
    currentSequence, \* mapFastaSeqs: currentSequence
    nLines,        \* mapFastaSeqs: FASTA lines read so far, over all passes
    ingested,      \* history: the set of [key, batch, model, sequence] pushed
    contribs,      \* countSeqs: per counted read, its seqMap key and seqKey
    rows,          \* countSeqs: the returned array
    csvOut,        \* counts main: the table at counts_outpath
    levA,          \* levenshteinDistance: argument a
    levB,          \* levenshteinDistance: argument b
    levDist,       \* levenshteinDistance: <<>> before the call, then <<result>>
    fpc,           \* findClosestMatches: "stream" (rows arrive) | "done"
    csvRows,       \* findClosestMatches: the rows the CSV stream delivered (history)
    records,       \* findClosestMatches: records
    warnings,      \* findClosestMatches: number of console.warn calls
    queries,       \* findClosestMatches: queries, [original, trimmed]
    maxLD,         \* findClosestMatches: the argument max_LD (<<>> is undefined)
    matchesMap,    \* findClosestMatches: matchesMap, as <<[key, val]>>
    inputPairs,    \* counts main: input_pairs, each with the files its split yields
    pair,          \* counts main: index of the input pair the split loop is at
    splitting,     \* counts main: the seqkit split process is at work
    rejected,      \* history: the steps whose promise rejected
    units,         \* counts main: split_input_pairs, as a list of [model, batch]
    lpc,           \* counts main: "split" | "loop" | "failed" (main has thrown) |
                   \* "counting" (countSeqs is called) | "written"
    unit,          \* counts main: index of the unit the loop is at
    step,          \* counts main: number of steps of this unit called so far
    awaiting,      \* counts main: the loop is suspended in an await
    running,       \* counts main: the <<unit, step>> still at work
    completed,     \* counts main: the <<unit, step>> that closed with success
    callee,        \* child process: the function that spawned it
    child,         \* child process: "spawned" | "running" | "exited" |
                   \* "closed" (the close handler has run)
    exitCode,      \* child process: <<>> until it exits, then <<code>>
    emitted,       \* child process: the chunks of output it has produced
    file,          \* the file at the path the write stream is opened on
    wstream,       \* the fs.WriteStream: "opening" | "open" | "closed"
    ended,         \* the fs.WriteStream: end() has been called
    pending,       \* the fs.WriteStream: chunks written to it, not yet in the file
    promise,       \* the returned promise: "pending" | "resolved" | "rejected"
    cpc,           \* main.js countSeqs: "stream" (entries arrive) | "done"
    mergedRows,    \* main.js countSeqs: the entries the CSV stream delivered (history)
    allSeqPairs,   \* main.js countSeqs: allSeqPairs, as <<[key, val]>>
    pairCounts     \* main.js countSeqs: the array the promise resolves with

hitVars   == <<prog, coverage, hpc, hits, cands, parsedData, bestEntries, bed>>
stripVars == <<stripOp, stripPrev, stripVal, stripN>>
countVars == <<seqMap, mpc, modelName, fastqName, target_name, currentSequence,
               nLines, ingested, contribs, rows, csvOut>>
levVars   == <<levA, levB, levDist>>
matchVars == <<fpc, csvRows, records, warnings, queries, maxLD, matchesMap>>
splitVars == <<inputPairs, pair, splitting>>
loopVars  == <<splitVars, rejected, units, lpc, unit, step, awaiting, running,
               completed>>
childVars == <<callee, child, exitCode, emitted, file, wstream, ended, pending,
               promise>>
pairVars  == <<cpc, mergedRows, allSeqPairs, pairCounts>>
vars      == <<mode, hitVars, stripVars, countVars, levVars, matchVars, loopVars,
               childVars, pairVars>>

\* what the actions of one program leave alone
notHitVars   == <<mode, stripVars, countVars, levVars, matchVars, loopVars,
                 childVars, pairVars>>
notStripVars == <<mode, hitVars, countVars, levVars, matchVars, loopVars,
                 childVars, pairVars>>
notCountVars == <<mode, hitVars, stripVars, levVars, matchVars, loopVars,
                 childVars, pairVars>>
notLevVars   == <<mode, hitVars, stripVars, countVars, matchVars, loopVars,
                 childVars, pairVars>>
notMatchVars == <<mode, hitVars, stripVars, countVars, levVars, loopVars,
                 childVars, pairVars>>
notChildVars == <<mode, hitVars, stripVars, countVars, levVars, matchVars,
                 loopVars, pairVars>>
notPairVars  == <<mode, hitVars, stripVars, countVars, levVars, matchVars,
                 loopVars, childVars>>
notLoopVars  == <<mode, hitVars, stripVars, countVars, levVars, matchVars,
                 childVars, pairVars>>

(***************************************************************************)
(* Bounds                                                                  *)
(***************************************************************************)
MaxLines  == 2      \* lines of one domtblout file
MaxPieces == 4      \* pieces a target id is assembled from
MaxApply  == 2      \* applications of one canonicalization
MaxFastaLines == 6  \* FASTA lines read by mapFastaSeqs over one run
MaxIngested == 4    \* entries of a seqMap handed to countSeqs
MaxSeqLen == 3      \* length of an argument of levenshteinDistance
MaxRows == 3        \* rows of a reference CSV file
MaxUnits == 2       \* (split FASTQ, model) units of one run
MaxChunks == 2      \* chunks of output of one child process
MaxMerged == 3      \* entries of a merged CSV file handed to main.js countSeqs

(***************************************************************************)
(* JavaScript values                                                       *)
(***************************************************************************)
NaN == <<>>
Num(n) == <<n>>
IsNum(v) == Len(v) = 1
Val(v) == v[1]

\* a + b, a - b on numbers: NaN when either operand is NaN
NumAdd(a, b) == IF IsNum(a) /\ IsNum(b) THEN Num(Val(a) + Val(b)) ELSE NaN
NumSub(a, b) == IF IsNum(a) /\ IsNum(b) THEN Num(Val(a) - Val(b)) ELSE NaN

\* a < b on numbers: false when either operand is NaN
JsLess(a, b) == IsNum(a) /\ IsNum(b) /\ Val(a) < Val(b)

\* x / q < t, t = <<num, den>> with den > 0: the quotient is NaN, +-Infinity
\* or the exact ratio
JsDivLess(x, q, t) ==
    IF ~IsNum(x) \/ ~IsNum(q) THEN FALSE
    ELSE IF Val(q) = 0 THEN Val(x) < 0
    ELSE IF Val(q) > 0 THEN Val(x) * t[2] < t[1] * Val(q)
    ELSE Val(x) * t[2] > t[1] * Val(q)

(***************************************************************************)
(* Strings                                                                 *)
(***************************************************************************)
Digits == {"0", "1", "2", "3", "4", "5", "6", "7", "8", "9"}
IsDigit(c) == c \in Digits
DigitVal(c) ==
    CASE c = "0" -> 0 [] c = "1" -> 1 [] c = "2" -> 2 [] c = "3" -> 3
      [] c = "4" -> 4 [] c = "5" -> 5 [] c = "6" -> 6 [] c = "7" -> 7
      [] c = "8" -> 8 [] c = "9" -> 9

IsSpace(c) == c \in {" ", "\t", "\r"}

\* s.slice(i - 1, j)   (1-based inclusive i..j)
Slice(s, i, j) == IF j < i THEN <<>> ELSE SubSeq(s, i, j)

\* s starts with pat at (1-based) position i
StartsAt(s, pat, i) ==
    /\ i >= 1
    /\ i + Len(pat) - 1 <= Len(s)
    /\ \A k \in 1..Len(pat) : s[i + k - 1] = pat[k]

\* first position >= from at which P holds, 0 when there is none
RECURSIVE IndexFrom(_, _, _)
IndexFrom(s, pat, from) ==
    IF from + Len(pat) - 1 > Len(s) THEN 0
    ELSE IF StartsAt(s, pat, from) THEN from
    ELSE IndexFrom(s, pat, from + 1)

\* String.prototype.trim
RECURSIVE TrimLeft(_)
TrimLeft(s) == IF Len(s) > 0 /\ IsSpace(s[1]) THEN TrimLeft(Tail(s)) ELSE s
RECURSIVE TrimRight(_)
TrimRight(s) ==
    IF Len(s) > 0 /\ IsSpace(s[Len(s)])
    THEN TrimRight(SubSeq(s, 1, Len(s) - 1)) ELSE s
Trim(s) == TrimRight(TrimLeft(s))

\* number of consecutive digits of s starting at position i
RECURSIVE DigitRun(_, _)
DigitRun(s, i) ==
    IF i <= Len(s) /\ IsDigit(s[i]) THEN 1 + DigitRun(s, i + 1) ELSE 0

\* decimal value of the digits s[i..j]
RECURSIVE DecVal(_, _, _)
DecVal(s, i, j) ==
    IF j < i THEN 0 ELSE 10 * DecVal(s, i, j - 1) + DigitVal(s[j])

HasSign(s) == Len(s) >= 1 /\ s[1] \in {"-", "+"}
SignOf(s) == IF Len(s) >= 1 /\ s[1] = "-" THEN -1 ELSE 1

\* Number.parseInt(s, 10): optional sign, then the longest digit prefix
ParseInt(s) ==
    LET st == IF HasSign(s) THEN 2 ELSE 1
        n  == DigitRun(s, st)
    IN  IF n = 0 THEN NaN ELSE Num(SignOf(s) * DecVal(s, st, st + n - 1))

\* Number.parseFloat(s), in tenths: optional sign, digits, optional "." and
\* fraction digits (the first fraction digit is kept)
ParseFloat(s) ==
    LET st == IF HasSign(s) THEN 2 ELSE 1
        n  == DigitRun(s, st)
        dot == st + n <= Len(s) /\ s[st + n] = "."
        f  == IF dot THEN DigitRun(s, st + n + 1) ELSE 0
        ip == DecVal(s, st, st + n - 1)
        fp == IF f > 0 THEN DigitVal(s[st + n + 1]) ELSE 0
    IN  IF n = 0 /\ f = 0 THEN NaN ELSE Num(SignOf(s) * (10 * ip + fp))

FrameMarker == <<"_", "f", "r", "a", "m", "e", "=">>
FrameWord   == <<"_", "f", "r", "a", "m", "e">>

(***************************************************************************)
(* The three canonicalizations of a target id                              *)
(***************************************************************************)
\* matches_pipeline.js: entry.target_name.split("_frame=")[0]
SplitFrame(s) ==
    LET i == IndexFrom(s, FrameMarker, 1)
    IN  IF i = 0 THEN s ELSE Slice(s, 1, i - 1)

\* length of the match of /_frame=-?\d+/ at position i, 0 when it does not match
FrameMatchLen(s, i) ==
    IF ~StartsAt(s, FrameMarker, i) THEN 0
    ELSE LET p == i + Len(FrameMarker)
             m == IF p <= Len(s) /\ s[p] = "-" /\ DigitRun(s, p + 1) > 0
                  THEN 1 ELSE 0
             d == DigitRun(s, p + m)
         IN  IF d = 0 THEN 0 ELSE Len(FrameMarker) + m + d

RECURSIVE FrameMatchFrom(_, _)
FrameMatchFrom(s, i) ==
    IF i > Len(s) THEN 0
    ELSE IF FrameMatchLen(s, i) > 0 THEN i
    ELSE FrameMatchFrom(s, i + 1)

\* main.js mergeData: target_name.replace(/_frame=-?\d+/, "").trim()
RemoveFrame(s) ==
    LET i == FrameMatchFrom(s, 1)
    IN  IF i = 0 THEN Trim(s)
        ELSE Trim(Slice(s, 1, i - 1) \o
                  Slice(s, i + FrameMatchLen(s, i), Len(s)))

\* counts pipeline mapFastaSeqs: line.replace(/^>(.*?)_frame.*/, "$1").trim()
HeaderName(line) ==
    LET i == IF Len(line) >= 1 /\ line[1] = ">"
             THEN IndexFrom(line, FrameWord, 2) ELSE 0
    IN  IF i = 0 THEN Trim(line) ELSE Trim(Slice(line, 2, i - 1))

(***************************************************************************)
(* Maps that keep insertion order (JavaScript Map, and the string-keyed    *)
(* object of main.js): a sequence of [key, val] records                    *)
(***************************************************************************)
MapHas(m, k) == \E i \in 1..Len(m) : m[i].key = k
MapIdx(m, k) == CHOOSE i \in 1..Len(m) : m[i].key = k
MapGet(m, k) == m[MapIdx(m, k)].val
MapSet(m, k, v) ==
    IF MapHas(m, k)
    THEN [m EXCEPT ![MapIdx(m, k)] = [key |-> k, val |-> v]]
    ELSE Append(m, [key |-> k, val |-> v])
MapKeys(m) == {m[i].key : i \in 1..Len(m)}

(***************************************************************************)
(* Lines of a domtblout file.  A line is its kind (the test of the first   *)
(* statement of the loop body), its number of whitespace-separated columns *)
(* and the text of the columns the programs read.                          *)
(***************************************************************************)
ReadA1 == <<"A">> \o FrameMarker \o <<"1">>      \* readA, frame 1
ReadA2 == <<"A">> \o FrameMarker \o <<"2">>      \* readA, frame 2
ReadB1 == <<"B">> \o FrameMarker \o <<"1">>      \* readB, frame 1
Targets == {ReadA1, ReadA2, ReadB1}

ScoreHi == <<"1", "2", ".", "3">>                \* 12.3
ScoreLo == <<"9", ".", "8">>                     \* 9.8
NotANumber == <<"x">>                            \* a non-numeric column

BaseLine ==
    [kind |-> "data", ncols |-> 23, c0 |-> ReadA1, c5 |-> <<"1", "0">>,
     c6 |-> <<"0">>, c7 |-> ScoreLo, c13 |-> ScoreLo, c15 |-> <<"1">>, c16 |-> <<"6">>,
     c17 |-> <<"1">>, c18 |-> <<"3">>]

AliSpans == {<<(<<"1">>), (<<"3">>)>>, <<(<<"2">>), (<<"2">>)>>}

\* the lines the counts pipeline is run on: it reads the per-domain score
\* (column 13), the model length and the model span
CountsLines ==
    {[BaseLine EXCEPT !.c0 = t, !.c13 = sc, !.c16 = h, !.c17 = a[1], !.c18 = a[2]] :
        t \in Targets, sc \in {ScoreHi, ScoreLo},
        h \in {<<"4">>, <<"5">>, <<"6">>}, a \in AliSpans}
    \cup {[BaseLine EXCEPT !.kind = "comment"],
          [BaseLine EXCEPT !.ncols = 22],
          [BaseLine EXCEPT !.c5 = NotANumber, !.c16 = <<"4">>],
          [BaseLine EXCEPT !.c13 = NotANumber],
          [BaseLine EXCEPT !.c17 = NotANumber]}

\* the lines the matches pipeline and main.js are run on: they read the
\* full-sequence score (column 7) only
ScoreLines ==
    {[BaseLine EXCEPT !.c0 = t, !.c7 = sc, !.c17 = a[1], !.c18 = a[2]] :
        t \in Targets, sc \in {ScoreHi, ScoreLo, NotANumber}, a \in AliSpans}
    \cup {[BaseLine EXCEPT !.kind = "blank"],
          [BaseLine EXCEPT !.ncols = 22],
          [BaseLine EXCEPT !.c17 = NotANumber]}

Thresholds == {<<1, 2>>, <<3, 5>>}               \* hmm_coverage 0.5, 0.6

\* line.startsWith("#") || line.trim() === "", then columns.length < 23
LineSkipped(line) == line.kind # "data" \/ line.ncols < 23

(***************************************************************************)
(* counts pipeline: extractBestHMMHits(domtblPath, coverage, bedFilePath)  *)
(***************************************************************************)
CountsEntry(line) ==
    [target_name |-> line.c0,
     qlen     |-> ParseInt(line.c5),
     score    |-> ParseFloat(line.c13),
     hmm_from |-> ParseInt(line.c15),
     hmm_to   |-> ParseInt(line.c16),
     ali_from |-> ParseInt(line.c17),
     ali_to   |-> ParseInt(line.c18)]

HmmCovered(entry) == NumAdd(NumSub(entry.hmm_to, entry.hmm_from), Num(1))

\* variant: hmm_covered / entry.qlen <= coverage
CoverageBelowOrEqual(entry, t) ==
    \/ JsDivLess(HmmCovered(entry), entry.qlen, t)
    \/ /\ IsNum(HmmCovered(entry)) /\ IsNum(entry.qlen) /\ Val(entry.qlen) # 0
       /\ Val(HmmCovered(entry)) * t[2] = t[1] * Val(entry.qlen)
\* variant: the filter is applied after the grouping step, not before it
CoverageNeverBelow(entry, t) == FALSE
\* hmm_covered / entry.qlen < coverage
CoverageBelow(entry, t) == JsDivLess(HmmCovered(entry), entry.qlen, t)

\* variant: the start position is not shifted to 0-based
BedLineNoShift(entry) ==
    [target_name |-> entry.target_name,
     start |-> entry.ali_from,
     end   |-> entry.ali_to,
     score |-> entry.score]
\* [target_name, ali_from - 1, ali_to, score]  (joined by tabs when written)
BedLine(entry) ==
    [target_name |-> entry.target_name,
     start |-> NumSub(entry.ali_from, Num(1)),
     end   |-> entry.ali_to,
     score |-> entry.score]

BedContent(m) == [i \in 1..Len(m) |-> BedLine(m[i].val)]

\* the key an entry is grouped under in the counts pipeline
CountsKey(entry) == entry.target_name

\* one iteration of the for-await loop over the lines
ReadLineCounts(line) ==
    /\ mode = "hits" /\ prog = "counts" /\ hpc = "read"
    /\ Len(hits) < MaxLines
    /\ hits' = Append(hits, line)
    /\ IF LineSkipped(line) \/ CoverageBelow(CountsEntry(line), coverage)
       THEN /\ cands' = Append(cands, <<>>)
            /\ UNCHANGED bestEntries
       ELSE /\ cands' = Append(cands, <<CountsEntry(line)>>)
            /\ bestEntries' =
                   MapSet(bestEntries, CountsKey(CountsEntry(line)), CountsEntry(line))
    /\ UNCHANGED <<prog, coverage, hpc, parsedData, bed, notHitVars>>

\* end of input: the BED content is generated and written
WriteBedCounts ==
    /\ mode = "hits" /\ prog = "counts" /\ hpc = "read"
    /\ bed' = BedContent(bestEntries)
    /\ hpc' = "done"
    /\ UNCHANGED <<prog, coverage, hits, cands, parsedData, bestEntries, notHitVars>>

(***************************************************************************)
(* matches pipeline: extractBestHMMHits(domtblPath, bedFilePath)           *)
(***************************************************************************)
MatchesEntry(line) ==
    [target_name |-> line.c0,
     score    |-> ParseFloat(line.c7),
     ali_from |-> ParseInt(line.c17),
     ali_to   |-> ParseInt(line.c18)]

\* variant: entryForTarget.score <= entry.score
ReplacesOnTie(m, key, entry) ==
    \/ ~MapHas(m, key)
    \/ JsLess(MapGet(m, key).score, entry.score)
    \/ /\ IsNum(entry.score) /\ MapGet(m, key).score = entry.score
\* variant: !(entryForTarget.score >= entry.score)
ReplacesUnlessAtLeast(m, key, entry) ==
    \/ ~MapHas(m, key)
    \/ ~(/\ IsNum(MapGet(m, key).score) /\ IsNum(entry.score)
          /\ Val(MapGet(m, key).score) >= Val(entry.score))
\* entryForTarget === undefined || entryForTarget.score < entry.score
Replaces(m, key, entry) ==
    \/ ~MapHas(m, key)
    \/ JsLess(MapGet(m, key).score, entry.score)

MatchesKey(entry) == SplitFrame(entry.target_name)

ReadLineMatches(line) ==
    /\ mode = "hits" /\ prog = "matches" /\ hpc = "read"
    /\ Len(hits) < MaxLines
    /\ hits' = Append(hits, line)
    /\ IF LineSkipped(line)
       THEN /\ cands' = Append(cands, <<>>)
            /\ UNCHANGED bestEntries
       ELSE /\ cands' = Append(cands, <<MatchesEntry(line)>>)
            /\ bestEntries' =
                   IF Replaces(bestEntries, MatchesKey(MatchesEntry(line)),
                               MatchesEntry(line))
                   THEN MapSet(bestEntries, MatchesKey(MatchesEntry(line)),
                               MatchesEntry(line))
                   ELSE bestEntries
    /\ UNCHANGED <<prog, coverage, hpc, parsedData, bed, notHitVars>>

WriteBedMatches ==
    /\ mode = "hits" /\ prog = "matches" /\ hpc = "read"
    /\ bed' = BedContent(bestEntries)
    /\ hpc' = "done"
    /\ UNCHANGED <<prog, coverage, hits, cands, parsedData, bestEntries, notHitVars>>

(***************************************************************************)
(* main.js: parseFullHMMOutput(hmmerOut)                                   *)
(***************************************************************************)
MainEntry(line) ==
    [target_name |-> line.c0,
     score    |-> ParseFloat(line.c7),
     e_value  |-> ParseFloat(line.c6),
     ali_from |-> ParseInt(line.c17),
     ali_to   |-> ParseInt(line.c18)]

MainKey(entry) == entry.target_name

\* the grouping loop over parsedData[i..]
RECURSIVE SelectBest(_, _, _)
SelectBest(data, i, m) ==
    IF i > Len(data) THEN m
    ELSE SelectBest(data, i + 1,
                    IF Replaces(m, MainKey(data[i]), data[i])
                    THEN MapSet(m, MainKey(data[i]), data[i])
                    ELSE m)

\* one iteration of the parsing loop
ReadLineMain(line) ==
    /\ mode = "hits" /\ prog = "main" /\ hpc = "read"
    /\ Len(hits) < MaxLines
    /\ hits' = Append(hits, line)
    /\ IF LineSkipped(line)
       THEN /\ cands' = Append(cands, <<>>)
            /\ UNCHANGED parsedData
       ELSE /\ cands' = Append(cands, <<MainEntry(line)>>)
            /\ parsedData' = Append(parsedData, MainEntry(line))
    /\ UNCHANGED <<prog, coverage, hpc, bestEntries, bed, notHitVars>>

\* the grouping loop, and return Object.values(bestEntries)
SelectMain ==
    /\ mode = "hits" /\ prog = "main" /\ hpc = "read"
    /\ bestEntries' = SelectBest(parsedData, 1, <<>>)
    /\ bed' = [i \in 1..Len(bestEntries') |-> bestEntries'[i].val]
    /\ hpc' = "done"
    /\ UNCHANGED <<prog, coverage, hits, cands, parsedData, notHitVars>>

StripIdle ==
    /\ stripOp = "none" /\ stripPrev = <<>> /\ stripVal = <<>> /\ stripN = 0

LevIdle == levA = <<>> /\ levB = <<>> /\ levDist = <<>>

MatchIdle ==
    /\ fpc = "off" /\ csvRows = <<>> /\ records = <<>> /\ warnings = 0
    /\ queries = [original |-> <<>>, trimmed |-> <<>>] /\ maxLD = <<>>
    /\ matchesMap = <<>>

LoopIdle ==
    /\ inputPairs = <<>> /\ pair = 0 /\ splitting = FALSE /\ rejected = {}
    /\ units = <<>> /\ lpc = "off" /\ unit = 0 /\ step = 0
    /\ awaiting = FALSE /\ running = {} /\ completed = {}

ChildIdle ==
    /\ callee = "none" /\ child = "none" /\ exitCode = <<>> /\ emitted = <<>>
    /\ file = <<>> /\ wstream = "none" /\ ended = FALSE /\ pending = <<>>
    /\ promise = "none"

PairsIdle ==
    /\ cpc = "off" /\ mergedRows = <<>> /\ allSeqPairs = <<>> /\ pairCounts = <<>>

\* the programs that are not running
OthersIdle == LevIdle /\ MatchIdle /\ LoopIdle /\ ChildIdle /\ PairsIdle

\* counts_outpath before writeCSV has written: no header row, no data rows
NoTable == [headers |-> <<>>, lines |-> <<>>]

CountIdle ==
    /\ seqMap = <<>> /\ mpc = "off" /\ modelName = <<>> /\ fastqName = <<>>
    /\ target_name = <<>> /\ currentSequence = <<>> /\ nLines = 0
    /\ ingested = {} /\ contribs = <<>> /\ rows = <<>> /\ csvOut = NoTable

InitHits ==
    /\ mode = "hits"
    /\ prog \in {"counts", "matches", "main"}
    /\ coverage \in (IF prog = "counts" THEN Thresholds ELSE {<<0, 1>>})
    /\ hpc = "read"
    /\ hits = <<>> /\ cands = <<>> /\ parsedData = <<>>
    /\ bestEntries = <<>> /\ bed = <<>>
    /\ StripIdle /\ CountIdle /\ OthersIdle

NextHits ==
    \/ \E line \in CountsLines : ReadLineCounts(line)
    \/ WriteBedCounts
    \/ \E line \in ScoreLines : ReadLineMatches(line)
    \/ WriteBedMatches
    \/ \E line \in ScoreLines : ReadLineMain(line)
    \/ SelectMain

SpecHits == InitHits /\ [][NextHits]_vars

(***************************************************************************)
(* Canonicalization applied repeatedly to one id                           *)
(***************************************************************************)
Pieces == {<<"A">>, FrameMarker, <<"1">>, <<"-">>, <<" ">>, <<">">>}

\* the strings assembled from at most n pieces
RECURSIVE Assembled(_)
Assembled(n) ==
    IF n = 0 THEN {<<>>}
    ELSE Assembled(n - 1) \cup {s \o p : s \in Assembled(n - 1), p \in Pieces}

StripApply(op, s) ==
    CASE op = "split"  -> SplitFrame(s)
      [] op = "remove" -> RemoveFrame(s)
      [] op = "header" -> HeaderName(s)

Strip(op) ==
    /\ mode = "strip"
    /\ stripOp \in {"none", op}
    /\ stripN < MaxApply
    /\ stripOp' = op
    /\ stripPrev' = stripVal
    /\ stripVal' = StripApply(op, stripVal)
    /\ stripN' = stripN + 1
    /\ UNCHANGED notStripVars

StripSplit  == Strip("split")
StripRemove == Strip("remove")
\* mapFastaSeqs rewrites header lines only: if (line.startsWith(">"))
StripHeader ==
    /\ stripN = 0 => (Len(stripVal) >= 1 /\ stripVal[1] = ">")
    /\ Strip("header")

HitsIdle ==
    /\ prog = "none" /\ coverage = <<0, 1>> /\ hpc = "done"
    /\ hits = <<>> /\ cands = <<>> /\ parsedData = <<>>
    /\ bestEntries = <<>> /\ bed = <<>>

InitStrip ==
    /\ mode = "strip"
    /\ stripOp = "none" /\ stripPrev = <<>> /\ stripN = 0
    /\ stripVal \in Assembled(MaxPieces)
    /\ HitsIdle /\ CountIdle /\ OthersIdle

NextStrip == StripSplit \/ StripRemove \/ StripHeader

SpecStrip == InitStrip /\ [][NextStrip]_vars

(***************************************************************************)
(* counts pipeline: mapFastaSeqs(trimmedFastaPath, modelName, fastqName,   *)
(* seqMap), one pass per (split FASTQ, model) unit of the main loop        *)
(***************************************************************************)
Models  == {<<"V", "H">>, <<"V", "L">>}
Batches == {<<"p", "1">>, <<"p", "2">>}

\* the lines of a trimmed FASTA file: headers of translated reads, and
\* sequence lines
FastaLines == {<<">">> \o t : t \in Targets} \cup {<<"Q">>, <<"K">>}

Truthy(str) == Len(str) > 0

\* line.startsWith(">")
IsHeader(line) == Len(line) >= 1 /\ line[1] = ">"

\* variant: the FASTQ name is not appended to the target name
TargetKeyNoBatch(line, fastq) == HeaderName(line)
\* `${target_name}|${fastqName}` with target_name the rewritten header
TargetKey(line, fastq) == HeaderName(line) \o <<"|">> \o fastq

\* the entries of a target: seqMap.get(target_name) ?? []
EntriesOf(m, name) == IF MapHas(m, name) THEN MapGet(m, name) ELSE <<>>

Pending == Truthy(target_name) /\ Truthy(currentSequence)

\* if (target_name && currentSequence) { sequences.push(...); seqMap.set(...) }
Flushed ==
    IF Pending
    THEN MapSet(seqMap, target_name,
                Append(EntriesOf(seqMap, target_name),
                       [model |-> modelName, sequence |-> Trim(currentSequence)]))
    ELSE seqMap

Recorded ==
    IF Pending
    THEN ingested \cup {[key |-> target_name, batch |-> fastqName,
                         model |-> modelName,
                         sequence |-> Trim(currentSequence)]}
    ELSE ingested

\* the main loop calls mapFastaSeqs for the next unit
StartPass(model, batch) ==
    /\ mode = "count" /\ mpc = "idle"
    /\ mpc' = "pass"
    /\ modelName' = model /\ fastqName' = batch
    /\ target_name' = <<>> /\ currentSequence' = <<>>
    /\ UNCHANGED <<seqMap, nLines, ingested, contribs, rows, csvOut, notCountVars>>

\* stream.on("line"), a header line
OnHeaderLine(line) ==
    /\ mode = "count" /\ mpc = "pass"
    /\ IsHeader(line)
    /\ nLines < MaxFastaLines
    /\ nLines' = nLines + 1
    /\ seqMap' = Flushed
    /\ ingested' = Recorded
    /\ target_name' = TargetKey(line, fastqName)
    /\ currentSequence' = <<>>
    /\ UNCHANGED <<mpc, modelName, fastqName, contribs, rows, csvOut, notCountVars>>

\* stream.on("line"), any other line
OnSequenceLine(line) ==
    /\ mode = "count" /\ mpc = "pass"
    /\ ~IsHeader(line)
    /\ nLines < MaxFastaLines
    /\ nLines' = nLines + 1
    /\ currentSequence' = currentSequence \o Trim(line)
    /\ UNCHANGED <<seqMap, mpc, modelName, fastqName, target_name, ingested,
                   contribs, rows, csvOut, notCountVars>>

\* stream.on("close"): the promise resolves and the locals of the call are gone
OnClose ==
    /\ mode = "count" /\ mpc = "pass"
    /\ seqMap' = Flushed
    /\ ingested' = Recorded
    /\ mpc' = "idle"
    /\ modelName' = <<>> /\ fastqName' = <<>>
    /\ target_name' = <<>> /\ currentSequence' = <<>>
    /\ UNCHANGED <<nLines, contribs, rows, csvOut, notCountVars>>

(***************************************************************************)
(* counts pipeline: countSeqs(seqMap)                                      *)
(***************************************************************************)
UndefinedText == <<"u", "n", "d", "e", "f", "i", "n", "e", "d">>

\* target_name.replace(/\|.*$/, "")
TrimmedTargetName(key) ==
    LET i == IndexFrom(key, <<"|">>, 1)
    IN  IF i = 0 THEN key ELSE Slice(key, 1, i - 1)

SeqRange(q) == {q[i] : i \in 1..Len(q)}

\* modelSequences after the loop over entries[i..]
RECURSIVE ModelSequences(_, _, _)
ModelSequences(entries, i, m) ==
    IF i > Len(entries) THEN m
    ELSE ModelSequences(entries, i + 1,
                        MapSet(m, entries[i].model, entries[i].sequence))

\* allModels after the loop over entries[i..]  (a Set keeps insertion order)
RECURSIVE AddModels(_, _, _)
AddModels(all, entries, i) ==
    IF i > Len(entries) THEN all
    ELSE AddModels(IF entries[i].model \in SeqRange(all) THEN all
                   ELSE Append(all, entries[i].model),
                   entries, i + 1)

\* variant: the models missing from a read are never looked at
MissingModelsNone(all, entries) == {}
\* missingModels after the loop over the entries: new Set(allModels), with
\* the models of the entries deleted
MissingModels(all, entries) ==
    SeqRange(all) \ {entries[i].model : i \in 1..Len(entries)}

\* the first loop over seqMap[i..]: allModels and targetSequences; each
\* stored modelSequences is kept with the seqMap key it was built from
RECURSIVE Collect(_, _, _)
Collect(m, i, acc) ==
    IF i > Len(m) THEN acc
    ELSE LET name == TrimmedTargetName(m[i].key)
             entries == m[i].val
             ts == IF MapHas(acc.targetSequences, name)
                   THEN acc.targetSequences
                   ELSE MapSet(acc.targetSequences, name, <<>>)
             stored == [read |-> m[i].key,
                        sequences |-> ModelSequences(entries, 1, <<>>)]
         IN  Collect(m, i + 1,
                 [allModels |-> AddModels(acc.allModels, entries, 1),
                  targetSequences |->
                      IF MissingModels(acc.allModels, entries) # {}
                      THEN ts
                      ELSE MapSet(ts, name, Append(MapGet(ts, name), stored))])

Collected(m) == Collect(m, 1, [allModels |-> <<>>, targetSequences |-> <<>>])

\* for (const sequenceLists of targetSequences.values())
\*     for (const sequences of sequenceLists)
RECURSIVE Flattened(_)
Flattened(ts) == IF ts = <<>> THEN <<>> ELSE Head(ts).val \o Flattened(Tail(ts))

\* variant: the key lists the models in the order of the read's own entries
KeyOrderOfRead(allModelNames, sequences) ==
    [i \in 1..Len(sequences) |-> sequences[i].key]
\* the model ordering of a key: allModelNames
KeyOrder(allModelNames, sequences) == allModelNames

\* names.map((model) => `${model}:${sequences.get(model)}`).join("|")
RECURSIVE JoinKey(_, _, _)
JoinKey(names, sequences, i) ==
    IF i > Len(names) THEN <<>>
    ELSE (IF i > 1 THEN <<"|">> ELSE <<>>)
         \o names[i] \o <<":">>
         \o (IF MapHas(sequences, names[i]) THEN MapGet(sequences, names[i])
             ELSE UndefinedText)
         \o JoinKey(names, sequences, i + 1)

SeqKey(allModelNames, sequences) ==
    JoinKey(KeyOrder(allModelNames, sequences), sequences, 1)

\* per stored modelSequences, in the order of the second loop: the read it
\* came from and its seqKey
Contributions(m) ==
    LET c == Collected(m)
        flat == Flattened(c.targetSequences)
    IN  [i \in 1..Len(flat) |->
            [read |-> flat[i].read,
             sequences |-> flat[i].sequences,
             seqKey |-> SeqKey(c.allModels, flat[i].sequences)]]

\* seqCounts after the second loop over contributions[i..]
RECURSIVE SeqCounts(_, _, _)
SeqCounts(cs, i, counts) ==
    IF i > Len(cs) THEN counts
    ELSE LET k == cs[i].seqKey
             init == IF MapHas(counts, k) THEN counts
                     ELSE MapSet(counts, k,
                                 [sequences |-> cs[i].sequences, count |-> 0])
             old == MapGet(init, k)
         IN  SeqCounts(cs, i + 1,
                       MapSet(init, k, [old EXCEPT !.count = old.count + 1]))

\* Array.from(seqCounts.values()).reduce((sum, entry) => sum + entry.count, 0)
RECURSIVE TotalCount(_)
\* variant: the number of distinct combinations instead of the sum of counts
TotalCountOfKeys(counts) == Len(counts)
TotalCount(counts) ==
    IF counts = <<>> THEN 0 ELSE Head(counts).val.count + TotalCount(Tail(counts))

\* .sort((a, b) => b.count - a.count): a stable sort, by insertion
RECURSIVE InsertBeforeTies(_, _)
\* variant: an element is placed before the elements of equal count
InsertBeforeTies(sorted, e) ==
    IF sorted = <<>> THEN <<e>>
    ELSE IF Head(sorted).count > e.count
         THEN <<Head(sorted)>> \o InsertBeforeTies(Tail(sorted), e)
         ELSE <<e>> \o sorted
RECURSIVE InsertByCount(_, _)
InsertByCount(sorted, e) ==
    IF sorted = <<>> THEN <<e>>
    ELSE IF Head(sorted).count >= e.count
         THEN <<Head(sorted)>> \o InsertByCount(Tail(sorted), e)
         ELSE <<e>> \o sorted
RECURSIVE SortByCount(_, _, _)
SortByCount(counts, i, sorted) ==
    IF i > Len(counts) THEN sorted
    ELSE SortByCount(counts, i + 1, InsertByCount(sorted, counts[i].val))

\* model.replace(/\.[^.]+$/, "")
RECURSIVE LastDot(_, _)
LastDot(str, i) ==
    IF i = 0 THEN 0 ELSE IF str[i] = "." THEN i ELSE LastDot(str, i - 1)
RemoveExtension(str) ==
    LET d == LastDot(str, Len(str))
    IN  IF d = 0 \/ d = Len(str) THEN str ELSE Slice(str, 1, d - 1)

\* Object.fromEntries(Object.entries(sequences).map(([model, seq]) => ...))
RECURSIVE Columns(_, _, _)
Columns(sequences, i, cols) ==
    IF i > Len(sequences) THEN cols
    ELSE Columns(sequences, i + 1,
                 MapSet(cols, RemoveExtension(sequences[i].key), sequences[i].val))

\* the returned array; Frequency count / totalCount is kept as <<count, total>>
CountSeqsRows(m) ==
    LET counts == SeqCounts(Contributions(m), 1, <<>>)
        total  == TotalCount(counts)
        sorted == SortByCount(counts, 1, <<>>)
    IN  [i \in 1..Len(sorted) |->
            [columns |-> Columns(sorted[i].sequences, 1, <<>>),
             Count |-> sorted[i].count,
             Total_Count |-> total,
             Frequency |-> <<sorted[i].count, total>>]]

\* where main is once countSeqs has returned: at the call of writeCSV
AfterCountSeqsInLoop == "idle"

AfterCountSeqs == "counted"

\* const seqCounts = await countSeqs(seqMap), once the main loop has ended
CountSeqs ==
    /\ mode = "count" /\ mpc = "idle"
    /\ contribs' = Contributions(seqMap)
    /\ rows' = CountSeqsRows(seqMap)
    /\ mpc' = AfterCountSeqs
    /\ UNCHANGED <<seqMap, modelName, fastqName, target_name, currentSequence,
                   nLines, ingested, csvOut, notCountVars>>

(***************************************************************************)
(* counts pipeline: writeCSV(seqCounts, counts_outpath)                    *)
(***************************************************************************)
CountName      == <<"C", "o", "u", "n", "t">>
TotalCountName == <<"T", "o", "t", "a", "l", "_", "C", "o", "u", "n", "t">>
FrequencyName  == <<"F", "r", "e", "q", "u", "e", "n", "c", "y">>
NotAvailable   == <<"N", "A">>

\* Object.keys(row): the model columns, then Count, Total_Count, Frequency
RowKeys(row) ==
    [i \in 1..Len(row.columns) |-> row.columns[i].key]
        \o <<CountName, TotalCountName, FrequencyName>>

\* allHeaders.add(key) for the keys ks[i..]: a Set keeps first insertions
RECURSIVE AddHeaders(_, _, _)
AddHeaders(ks, i, headers) ==
    IF i > Len(ks) THEN headers
    ELSE AddHeaders(ks, i + 1,
                    IF \E h \in 1..Len(headers) : headers[h] = ks[i]
                    THEN headers ELSE Append(headers, ks[i]))

RECURSIVE AllHeaders(_, _, _)
AllHeaders(data, i, headers) ==
    IF i > Len(data) THEN headers
    ELSE AllHeaders(data, i + 1, AddHeaders(RowKeys(data[i]), 1, headers))

\* row[col] || "NA"; Count and Frequency are never 0
RowCell(row, col) ==
    IF col = CountName THEN Num(row.Count)
    ELSE IF col = TotalCountName THEN Num(row.Total_Count)
    ELSE IF col = FrequencyName THEN row.Frequency
    ELSE IF MapHas(row.columns, col) /\ Truthy(MapGet(row.columns, col))
         THEN MapGet(row.columns, col)
         ELSE NotAvailable

\* csvRows: the header row and one row of cells per data row
CsvRows(data) ==
    LET headers == AllHeaders(data, 1, <<>>)
    IN  [headers |-> headers,
         lines |-> [i \in 1..Len(data) |->
                       [h \in 1..Len(headers) |-> RowCell(data[i], headers[h])]]]

\* await writeCSV(seqCounts, counts_outpath): nothing is written for no rows
WriteCSV ==
    /\ mode = "count" /\ mpc = "counted"
    /\ csvOut' = IF Len(rows) = 0 THEN csvOut ELSE CsvRows(rows)
    /\ mpc' = "written"
    /\ UNCHANGED <<seqMap, modelName, fastqName, target_name, currentSequence,
                   nLines, ingested, contribs, rows, notCountVars>>

\* the run of the main loop: seqMap starts empty
InitIngest ==
    /\ mode = "count"
    /\ seqMap = <<>> /\ mpc = "idle" /\ modelName = <<>> /\ fastqName = <<>>
    /\ target_name = <<>> /\ currentSequence = <<>> /\ nLines = 0
    /\ ingested = {} /\ contribs = <<>> /\ rows = <<>> /\ csvOut = NoTable
    /\ HitsIdle /\ StripIdle /\ OthersIdle

NextIngest ==
    \/ \E model \in Models, batch \in Batches : StartPass(model, batch)
    \/ \E line \in FastaLines : OnHeaderLine(line)
    \/ \E line \in FastaLines : OnSequenceLine(line)
    \/ OnClose
    \/ CountSeqs
    \/ WriteCSV

SpecIngest == InitIngest /\ [][NextIngest]_vars

(***************************************************************************)
(* countSeqs on its own: the seqMap the main loop hands over is any map    *)
(* the passes can build from at most MaxIngested pushed entries            *)
(***************************************************************************)
ReadNames == {<<"A">>, <<"B">>}
Sequences == {<<"Q">>, <<"K">>}

Pushes ==
    [key : {n \o <<"|">> \o b : n \in ReadNames, b \in Batches},
     model : Models, sequence : Sequences]

\* seqMap after the pushes ps[i..], each as the flush of mapFastaSeqs does it
RECURSIVE Pushed(_, _, _)
Pushed(ps, i, m) ==
    IF i > Len(ps) THEN m
    ELSE Pushed(ps, i + 1,
                MapSet(m, ps[i].key,
                       Append(EntriesOf(m, ps[i].key),
                              [model |-> ps[i].model, sequence |-> ps[i].sequence])))

InitCountSeqs ==
    /\ mode = "count"
    /\ \E n \in 0..MaxIngested : \E ps \in [1..n -> Pushes] :
          /\ seqMap = Pushed(ps, 1, <<>>)
          /\ ingested = {[key |-> ps[i].key,
                          batch |-> Slice(ps[i].key, 3, Len(ps[i].key)),
                          model |-> ps[i].model,
                          sequence |-> ps[i].sequence] : i \in 1..n}
    /\ mpc = "idle" /\ modelName = <<>> /\ fastqName = <<>>
    /\ target_name = <<>> /\ currentSequence = <<>> /\ nLines = 0
    /\ contribs = <<>> /\ rows = <<>> /\ csvOut = NoTable
    /\ HitsIdle /\ StripIdle /\ OthersIdle

NextCountSeqs == CountSeqs

SpecCountSeqs == InitCountSeqs /\ [][NextCountSeqs]_vars

(***************************************************************************)
(* matches pipeline: levenshteinDistance(a, b)                             *)
(***************************************************************************)
Residues == {"Q", "K"}

\* the strings over the residues of length at most n
RECURSIVE Strings(_)
Strings(n) ==
    IF n = 0 THEN {<<>>}
    ELSE Strings(n - 1) \cup {Append(w, c) : w \in Strings(n - 1), c \in Residues}

\* variant: a substitution is charged even when the residues are the same
CostAlwaysOne(x, y) == 1
\* const cost = a[i - 1] === b[j - 1] ? 0 : 1
Cost(x, y) == IF x = y THEN 0 ELSE 1

\* variant: a deletion is charged twice
DeletionTwice(above) == above + 2
\* dp[i - 1][j] + 1
Deletion(above) == above + 1
\* dp[i][j - 1] + 1
Insertion(left) == left + 1
\* dp[i - 1][j - 1] + cost
Substitution(diag, cost) == diag + cost

\* Math.min of three numbers
Min3(x, y, z) ==
    IF x <= y /\ x <= z THEN x ELSE IF y <= z THEN y ELSE z

\* dp[0]: element j + 1 is dp[0][j] = j
FirstRow(b) == [k \in 1..(Len(b) + 1) |-> k - 1]

\* the inner loop over j: row holds dp[i][0 .. Len(row) - 1], prev is dp[i - 1]
RECURSIVE FillRow(_, _, _, _, _)
FillRow(a, b, i, prev, row) ==
    LET j == Len(row)
    IN  IF j > Len(b) THEN row
        ELSE FillRow(a, b, i, prev,
                 Append(row, Min3(Deletion(prev[j + 1]),
                                  Insertion(row[j]),
                                  Substitution(prev[j], Cost(a[i], b[j])))))

\* the outer loop over i, from row i on; dp[i][0] = i
RECURSIVE FillRows(_, _, _, _)
FillRows(a, b, i, prev) ==
    IF i > Len(a) THEN prev
    ELSE FillRows(a, b, i + 1, FillRow(a, b, i, prev, <<i>>))

\* return dp[a.length][b.length]
levenshteinDistance(a, b) == FillRows(a, b, 1, FirstRow(b))[Len(b) + 1]

CallLevenshtein ==
    /\ mode = "lev" /\ levDist = <<>>
    /\ levDist' = <<levenshteinDistance(levA, levB)>>
    /\ UNCHANGED <<levA, levB, notLevVars>>

InitLev ==
    /\ mode = "lev"
    /\ levA \in Strings(MaxSeqLen) /\ levB \in Strings(MaxSeqLen)
    /\ levDist = <<>>
    /\ HitsIdle /\ StripIdle /\ CountIdle /\ MatchIdle /\ LoopIdle /\ ChildIdle
    /\ PairsIdle

NextLev == CallLevenshtein

SpecLev == InitLev /\ [][NextLev]_vars

(***************************************************************************)
(* matches pipeline: findClosestMatches(csvFile, queries, sequenceColumn,  *)
(* maxLevenshteinDistance)                                                 *)
(***************************************************************************)
\* a row of the reference CSV: whether it holds the sequence column, the
\* text of that column, and the text of the three count columns
RefRow(has, seq, count) ==
    [has |-> has, seq |-> seq, Count |-> count, Total_Count |-> <<"8">>,
     Frequency |-> <<"1">>]

RefRows ==
    {RefRow(FALSE, <<>>, <<"5">>),
     RefRow(TRUE, <<>>, <<"4">>),
     RefRow(TRUE, <<"Q">>, <<"3">>),
     RefRow(TRUE, <<"K">>, <<"2">>),
     RefRow(TRUE, <<"Q", "K">>, NotANumber),
     RefRow(TRUE, <<"Q", "Q", "K">>, <<>>)}

\* queries: the original and the trimmed query sequences, index by index
QueryPairs ==
    {<<(<<"X", "Q">>), (<<"Q">>)>>,
     <<(<<"Q", "X">>), (<<"Q">>)>>,
     <<(<<"Q", "K", "X">>), (<<"Q", "K">>)>>}
QueryLists == {<<x>> : x \in QueryPairs} \cup {<<x, y>> : x, y \in QueryPairs}
QueriesOf(list) ==
    [original |-> [i \in 1..Len(list) |-> list[i][1]],
     trimmed  |-> [i \in 1..Len(list) |-> list[i][2]]]

\* config.max_LD: left out, 0 or 1
MaxLDs == {<<>>, Num(0), Num(1)}

\* Number(text) of a cell: 0 for a blank text, the value of a digit string,
\* NaN for any other text
NumberOf(text) ==
    LET t == Trim(text)
    IN  IF t = <<>> THEN Num(0)
        ELSE IF DigitRun(t, 1) = Len(t) THEN Num(DecVal(t, 1, Len(t)))
        ELSE NaN

\* variant: every row is taken to hold the column
HasColumnAlways(row) == TRUE
\* sequenceColumn in row
HasColumn(row) == row.has

\* .on("data", (row) => ...)
OnData(row) ==
    /\ mode = "match" /\ fpc = "stream"
    /\ Len(csvRows) < MaxRows
    /\ csvRows' = Append(csvRows, row)
    /\ IF HasColumn(row)
       THEN records' = Append(records, row) /\ UNCHANGED warnings
       ELSE warnings' = warnings + 1 /\ UNCHANGED records
    /\ UNCHANGED <<fpc, queries, maxLD, matchesMap, notMatchVars>>

\* variant: dist < maxLevenshteinDistance
BelowMax(dist, max) == max = <<>> \/ dist < Val(max)
\* dist <= maxLevenshteinDistance, the parameter defaulting to
\* Number.POSITIVE_INFINITY when the argument is undefined
WithinMax(dist, max) == max = <<>> \/ dist <= Val(max)

\* array.indexOf(x): the first index holding x, 0 when there is none
IndexOf(array, x) ==
    IF \E i \in 1..Len(array) : array[i] = x
    THEN CHOOSE i \in 1..Len(array) :
             array[i] = x /\ \A j \in 1..(i - 1) : array[j] # x
    ELSE 0

\* queries.original[queries.trimmed.indexOf(querySequence)]
OriginalQuery(qs, querySequence) ==
    LET i == IndexOf(qs.trimmed, querySequence)
    IN  IF i >= 1 /\ i <= Len(qs.original) THEN qs.original[i]
        ELSE UndefinedText

\* the object the map callback returns for a row within the threshold
Candidate(qs, querySequence, row) ==
    [Original_Query_Seq |-> OriginalQuery(qs, querySequence),
     Trimmed_Query_Seq  |-> querySequence,
     Matched_Seq        |-> row.seq,
     Levenshtein_Dist   |-> levenshteinDistance(querySequence, row.seq),
     Count              |-> NumberOf(row.Count),
     Total_Count        |-> NumberOf(row.Total_Count),
     Frequency          |-> NumberOf(row.Frequency)]

\* records.map(...).filter(Boolean), from record i on
RECURSIVE Mapped(_, _, _, _, _)
Mapped(recs, i, qs, querySequence, max) ==
    IF i > Len(recs) THEN <<>>
    ELSE (IF Truthy(recs[i].seq)
             /\ WithinMax(levenshteinDistance(querySequence, recs[i].seq), max)
          THEN <<Candidate(qs, querySequence, recs[i])>>
          ELSE <<>>)
         \o Mapped(recs, i + 1, qs, querySequence, max)

RECURSIVE InsertBeforeEqualDist(_, _)
\* variant: a candidate is placed before the candidates of equal distance
InsertBeforeEqualDist(sorted, e) ==
    IF sorted = <<>> THEN <<e>>
    ELSE IF Head(sorted).Levenshtein_Dist < e.Levenshtein_Dist
         THEN <<Head(sorted)>> \o InsertBeforeEqualDist(Tail(sorted), e)
         ELSE <<e>> \o sorted
\* matches.sort((a, b) => a.Levenshtein_Dist - b.Levenshtein_Dist): a stable
\* sort, by insertion
RECURSIVE InsertByDist(_, _)
InsertByDist(sorted, e) ==
    IF sorted = <<>> THEN <<e>>
    ELSE IF Head(sorted).Levenshtein_Dist <= e.Levenshtein_Dist
         THEN <<Head(sorted)>> \o InsertByDist(Tail(sorted), e)
         ELSE <<e>> \o sorted
RECURSIVE SortByDist(_, _, _)
SortByDist(ms, i, sorted) ==
    IF i > Len(ms) THEN sorted
    ELSE SortByDist(ms, i + 1, InsertByDist(sorted, ms[i]))

\* variant: the scans share one result list, so the scan of a query also
\* writes to the lists of the queries before it
RECURSIVE MatchesMapShared(_, _, _, _, _)
MatchesMapShared(recs, qs, max, i, m) ==
    IF i > Len(qs.trimmed) THEN m
    ELSE LET ms == SortByDist(Mapped(recs, 1, qs, qs.trimmed[i], max), 1, <<>>)
         IN  MatchesMapShared(recs, qs, max, i + 1,
                 MapSet([j \in 1..Len(m) |->
                            [key |-> m[j].key, val |-> m[j].val \o ms]],
                        qs.trimmed[i], ms))

\* the loop over queries.trimmed, from query i on
RECURSIVE MatchesMap(_, _, _, _, _)
MatchesMap(recs, qs, max, i, m) ==
    IF i > Len(qs.trimmed) THEN m
    ELSE MatchesMap(recs, qs, max, i + 1,
             MapSet(m, qs.trimmed[i],
                    SortByDist(Mapped(recs, 1, qs, qs.trimmed[i], max), 1, <<>>)))

\* .on("end", () => ...): the promise resolves with matchesMap
OnEnd ==
    /\ mode = "match" /\ fpc = "stream"
    /\ matchesMap' = MatchesMap(records, queries, maxLD, 1, <<>>)
    /\ fpc' = "done"
    /\ UNCHANGED <<csvRows, records, warnings, queries, maxLD, notMatchVars>>

InitMatch ==
    /\ mode = "match"
    /\ fpc = "stream" /\ csvRows = <<>> /\ records = <<>> /\ warnings = 0
    /\ queries \in {QueriesOf(list) : list \in QueryLists}
    /\ maxLD \in MaxLDs
    /\ matchesMap = <<>>
    /\ HitsIdle /\ StripIdle /\ CountIdle /\ LevIdle /\ LoopIdle /\ ChildIdle
    /\ PairsIdle

NextMatch ==
    \/ \E row \in RefRows : OnData(row)
    \/ OnEnd

SpecMatch == InitMatch /\ [][NextMatch]_vars

(***************************************************************************)
(* counts pipeline: the loop of main over split_input_pairs.  A step is    *)
(* at work from its call until its child process or stream has closed;     *)
(* the loop is suspended while it awaits the promise of the step.          *)
(***************************************************************************)
\* fullSeqKit, runHMMSearch, extractBestHMMHits, trimSeqs, mapFastaSeqs
StepNames == <<"translate", "search", "besthit", "trim", "map">>

AllUnits == [model : Models, batch : Batches]

\* split_input_pairs: a Map, so no unit occurs twice
UnitLists ==
    {us \in UNION {[1..n -> AllUnits] : n \in 1..MaxUnits} :
        \A i, j \in 1..Len(us) : us[i] = us[j] => i = j}

\* the files seqkit split leaves in the directory of one input pair
SplitLists ==
    {fs \in UNION {[1..n -> Batches] : n \in 0..MaxUnits} :
        \A i, j \in 1..Len(fs) : fs[i] = fs[j] => i = j}

\* split_input_pairs.set(file, model_path) for the files fs[i..]
RECURSIVE SplitUnits(_, _, _, _)
SplitUnits(model, fs, i, us) ==
    IF i > Len(fs) THEN us
    ELSE SplitUnits(model, fs, i + 1,
                    Append(us, [model |-> model, batch |-> fs[i]]))

RECURSIVE AllSplitUnits(_, _, _)
AllSplitUnits(ps, i, us) ==
    IF i > Len(ps) THEN us
    ELSE AllSplitUnits(ps, i + 1, SplitUnits(ps[i].model, ps[i].files, 1, us))

\* input_pairs of the config: the units they split into are distinct files
InputPairLists ==
    {ps \in UNION {[1..n -> [model : Models, files : SplitLists]] :
                       n \in 0..MaxUnits} :
        AllSplitUnits(ps, 1, <<>>) \in UnitLists \cup {<<>>}}

\* await batchSeqKit(fastq_path, fastqOutputDir)
CallSplit ==
    /\ mode = "loop" /\ lpc = "split" /\ ~awaiting
    /\ pair <= Len(inputPairs)
    /\ splitting' = TRUE
    /\ awaiting' = TRUE
    /\ UNCHANGED <<inputPairs, pair, rejected, units, lpc, unit, step, running,
                   completed, notLoopVars>>

\* seqkit split closes with code 0: the split files are read and stored, and
\* main throws when there are none
SplitResolves ==
    /\ mode = "loop" /\ lpc = "split" /\ splitting
    /\ splitting' = FALSE
    /\ awaiting' = FALSE
    /\ IF Len(inputPairs[pair].files) = 0
       THEN lpc' = "failed" /\ UNCHANGED <<units, pair>>
       ELSE /\ units' = SplitUnits(inputPairs[pair].model,
                                   inputPairs[pair].files, 1, units)
            /\ pair' = pair + 1
            /\ UNCHANGED lpc
    /\ UNCHANGED <<inputPairs, rejected, unit, step, running, completed,
                   notLoopVars>>

\* seqkit split closes with another code: the promise rejects, main throws
SplitRejects ==
    /\ mode = "loop" /\ lpc = "split" /\ splitting
    /\ splitting' = FALSE
    /\ rejected' = rejected \cup {<<pair, 0>>}
    /\ lpc' = "failed"
    /\ UNCHANGED <<inputPairs, pair, units, unit, step, awaiting, running,
                   completed, notLoopVars>>

\* every input pair is split: let seqMap = new Map(), and the loop starts
StartLoop ==
    /\ mode = "loop" /\ lpc = "split" /\ ~awaiting
    /\ pair > Len(inputPairs)
    /\ lpc' = "loop"
    /\ UNCHANGED <<splitVars, rejected, units, unit, step, awaiting, running,
                   completed, notLoopVars>>

\* variant: the promise of mapFastaSeqs is not awaited
AwaitsAllButMap(name) == name # "map"
\* variant: the promise of trimSeqs is not awaited
AwaitsAllButTrim(name) == name # "trim"
\* every step is called as  await step(...)
Awaits(name) == TRUE

\* the loop calls the next step of the unit it is at
CallStep ==
    /\ mode = "loop" /\ lpc = "loop" /\ ~awaiting
    /\ unit <= Len(units) /\ step < Len(StepNames)
    /\ step' = step + 1
    /\ running' = running \cup {<<unit, step + 1>>}
    /\ awaiting' = Awaits(StepNames[step + 1])
    /\ UNCHANGED <<splitVars, rejected, units, lpc, unit, completed, notLoopVars>>

\* the step x closes with success: its promise resolves
StepResolves(x) ==
    /\ mode = "loop" /\ x \in running
    /\ running' = running \ {x}
    /\ completed' = completed \cup {x}
    /\ awaiting' = IF x = <<unit, step>> THEN FALSE ELSE awaiting
    /\ UNCHANGED <<splitVars, rejected, units, lpc, unit, step, notLoopVars>>

\* the step x closes with a failure: its promise rejects, and when the loop
\* awaits it main throws
StepRejects(x) ==
    /\ mode = "loop" /\ x \in running
    /\ running' = running \ {x}
    /\ rejected' = rejected \cup {x}
    /\ lpc' = IF awaiting /\ x = <<unit, step>> /\ lpc = "loop"
              THEN "failed" ELSE lpc
    /\ UNCHANGED <<splitVars, units, unit, step, awaiting, completed, notLoopVars>>

\* fullSeqKit: the write stream on the FASTA path fails and the promise
\* rejects while the seqkit process is still at work
OnWriteStreamError ==
    /\ mode = "loop" /\ lpc = "loop" /\ awaiting
    /\ step >= 1 /\ StepNames[step] = "translate"
    /\ <<unit, step>> \in running
    /\ lpc' = "failed"
    /\ UNCHANGED <<splitVars, rejected, units, unit, step, awaiting, running,
                   completed, notLoopVars>>

\* the body of the loop has run through: the next unit
NextUnit ==
    /\ mode = "loop" /\ lpc = "loop" /\ ~awaiting
    /\ unit <= Len(units) /\ step = Len(StepNames)
    /\ unit' = unit + 1
    /\ step' = 0
    /\ UNCHANGED <<splitVars, rejected, units, lpc, awaiting, running, completed,
                   notLoopVars>>

\* the loop has ended: countSeqs(seqMap) is called
EndLoop ==
    /\ mode = "loop" /\ lpc = "loop" /\ ~awaiting
    /\ unit > Len(units)
    /\ lpc' = "counting"
    /\ UNCHANGED <<splitVars, rejected, units, unit, step, awaiting, running,
                   completed, notLoopVars>>

\* countSeqs has returned and writeCSV(seqCounts, counts_outpath) is through
WriteTable ==
    /\ mode = "loop" /\ lpc = "counting"
    /\ lpc' = "written"
    /\ UNCHANGED <<splitVars, rejected, units, unit, step, awaiting, running,
                   completed, notLoopVars>>

InitLoop ==
    /\ mode = "loop"
    /\ inputPairs \in InputPairLists
    /\ pair = 1 /\ splitting = FALSE /\ rejected = {}
    /\ units = <<>>
    /\ lpc = "split" /\ unit = 1 /\ step = 0
    /\ awaiting = FALSE /\ running = {} /\ completed = {}
    /\ HitsIdle /\ StripIdle /\ CountIdle /\ LevIdle /\ MatchIdle /\ ChildIdle
    /\ PairsIdle

NextLoop ==
    \/ CallSplit
    \/ SplitResolves
    \/ SplitRejects
    \/ StartLoop
    \/ CallStep
    \/ \E x \in running : StepResolves(x)
    \/ \E x \in running : StepRejects(x)
    \/ OnWriteStreamError
    \/ NextUnit
    \/ EndLoop
    \/ WriteTable

SpecLoop == InitLoop /\ [][NextLoop]_vars

(***************************************************************************)
(* One call of fullSeqKit or of runHMMSearch: the child process, the       *)
(* write stream the function opens, the file at the path of the stream,    *)
(* and the promise.  The state after the executor of the promise has run:  *)
(* the child is spawned and the stream is created, its file not yet open.  *)
(* The child and the open of the stream run beside the event loop, in any  *)
(* order.                                                                  *)
(***************************************************************************)
\* fullSeqKit of the counts pipeline, fullSeqKit of main.js, runHMMSearch
Callees == {"fullSeqKit", "fullSeqKit.main", "runHMMSearch"}
Translates == callee \in {"fullSeqKit", "fullSeqKit.main"}

Chunks == {<<"Q">>, <<"K">>}
ExitCodes == {0, 1}
\* the bytes of a file between its end and a write beyond its end
Hole == <<"0">>

\* the file after a write of chunk c at chunk offset pos
WriteAt(f, pos, c) ==
    [i \in 1..(IF Len(f) > pos THEN Len(f) ELSE pos) |->
        IF i = pos THEN c ELSE IF i <= Len(f) THEN f[i] ELSE Hole]

\* variant: the stream is ended whatever the exit code
EndedOnAnyCode(code) == TRUE
\* stdoutStream.end() is called in the branch code === 0 only
EndedOnClose(code) == code = 0

\* fullSeqKit: the shell opens the target of  > fullFastaPath  (truncating)
\* and starts the pipeline
ShellOpens ==
    /\ mode = "child" /\ Translates /\ child = "spawned"
    /\ child' = "running"
    /\ file' = <<>>
    /\ UNCHANGED <<callee, exitCode, emitted, wstream, ended, pending, promise,
                   notChildVars>>

\* fullSeqKit: seqkit translate writes its next chunk at its file offset
ChildWrites(c) ==
    /\ mode = "child" /\ Translates /\ child = "running"
    /\ Len(emitted) < MaxChunks
    /\ emitted' = Append(emitted, c)
    /\ file' = WriteAt(file, Len(emitted) + 1, c)
    /\ UNCHANGED <<callee, child, exitCode, wstream, ended, pending, promise,
                   notChildVars>>

\* the open of the write stream completes: flags "w" truncate the file
\* (fullSeqKit), flags "a" leave it as it is (runHMMSearch)
StreamOpens ==
    /\ mode = "child" /\ wstream = "opening"
    /\ wstream' = "open"
    /\ file' = IF Translates THEN <<>> ELSE file
    /\ UNCHANGED <<callee, child, exitCode, emitted, ended, pending, promise,
                   notChildVars>>

\* runHMMSearch: hmmsearch.stdout.on("data"): stdoutStream.write(data)
OnStdoutData(c) ==
    /\ mode = "child" /\ callee = "runHMMSearch" /\ child = "running"
    /\ Len(emitted) < MaxChunks
    /\ emitted' = Append(emitted, c)
    /\ pending' = Append(pending, c)
    /\ UNCHANGED <<callee, child, exitCode, file, wstream, ended, promise,
                   notChildVars>>

\* the open stream writes its oldest buffered chunk to the file
StreamFlushes ==
    /\ mode = "child" /\ wstream = "open" /\ pending # <<>>
    /\ file' = Append(file, Head(pending))
    /\ pending' = Tail(pending)
    /\ UNCHANGED <<callee, child, exitCode, emitted, wstream, ended, promise,
                   notChildVars>>

\* the child process exits with some code
ChildExits(code) ==
    /\ mode = "child" /\ child = "running"
    /\ child' = "exited"
    /\ exitCode' = <<code>>
    /\ UNCHANGED <<callee, emitted, file, wstream, ended, pending, promise,
                   notChildVars>>

\* fullSeqKit, on("close"): main.js resolves on code 0, the counts pipeline
\* calls fs.stat first; any other code rejects
OnCloseTranslate ==
    /\ mode = "child" /\ Translates /\ child = "exited"
    /\ child' = "closed"
    /\ promise' = IF exitCode # <<0>> THEN "rejected"
                  ELSE IF callee = "fullSeqKit.main" THEN "resolved"
                  ELSE promise
    /\ UNCHANGED <<callee, exitCode, emitted, file, wstream, ended, pending,
                   notChildVars>>

\* fullSeqKit of the counts pipeline, the callback of fs.stat: an empty file
\* rejects
OnStat ==
    /\ mode = "child" /\ callee = "fullSeqKit" /\ child = "closed"
    /\ exitCode = <<0>> /\ promise = "pending"
    /\ promise' = IF Len(file) = 0 THEN "rejected" ELSE "resolved"
    /\ UNCHANGED <<callee, child, exitCode, emitted, file, wstream, ended,
                   pending, notChildVars>>

\* runHMMSearch, on("close")
OnCloseSearch ==
    /\ mode = "child" /\ callee = "runHMMSearch" /\ child = "exited"
    /\ child' = "closed"
    /\ ended' = EndedOnClose(exitCode[1])
    /\ promise' = IF exitCode = <<0>> THEN "resolved" ELSE "rejected"
    /\ UNCHANGED <<callee, exitCode, emitted, file, wstream, pending,
                   notChildVars>>

\* an ended stream closes its file once everything buffered is written
StreamCloses ==
    /\ mode = "child" /\ wstream = "open" /\ ended /\ pending = <<>>
    /\ wstream' = "closed"
    /\ UNCHANGED <<callee, child, exitCode, emitted, file, ended, pending,
                   promise, notChildVars>>

InitChild ==
    /\ mode = "child"
    /\ callee \in Callees
    /\ child = (IF Translates THEN "spawned" ELSE "running")
    /\ exitCode = <<>> /\ emitted = <<>> /\ file = <<>>
    /\ wstream = "opening" /\ ended = FALSE /\ pending = <<>>
    /\ promise = "pending"
    /\ HitsIdle /\ StripIdle /\ CountIdle /\ LevIdle /\ MatchIdle /\ LoopIdle
    /\ PairsIdle

NextChild ==
    \/ ShellOpens
    \/ \E c \in Chunks : ChildWrites(c)
    \/ StreamOpens
    \/ \E c \in Chunks : OnStdoutData(c)
    \/ StreamFlushes
    \/ \E code \in ExitCodes : ChildExits(code)
    \/ OnCloseTranslate
    \/ OnStat
    \/ OnCloseSearch
    \/ StreamCloses

SpecChild == InitChild /\ [][NextChild]_vars

\* the event loop runs every callback that is ready, the child process runs
\* until it exits, and an open or a write of a stream completes
FairSpecChild == SpecChild /\ WF_vars(NextChild)

(***************************************************************************)
(* main.js: countSeqs(mergedDataPath), beside the counts pipeline's        *)
(* mapFastaSeqs passes and countSeqs                                       *)
(***************************************************************************)
\* the entries of a merged CSV file: the columns countSeqs reads
MergedEntries ==
    [target_name : ReadNames, FASTQ_filename : Batches,
     model_name : Models \cup {<<"X">>}, trimmed_seq : Sequences]

\* null, which is no string
Null == <<"null">>

\* String.prototype.toLowerCase, on the letters of the model names
LowerChar(ch) ==
    IF ch = "V" THEN "v" ELSE IF ch = "H" THEN "h"
    ELSE IF ch = "L" THEN "l" ELSE IF ch = "X" THEN "x" ELSE ch
ToLowerCase(str) == [i \in 1..Len(str) |-> LowerChar(str[i])]

\* entry.model_name.toLowerCase().includes(word)
Includes(str, word) == IndexFrom(ToLowerCase(str), word, 1) # 0

\* `${target_name}_${FASTQ_filename}`
TargetFastqPair(entry) == entry.target_name \o <<"_">> \o entry.FASTQ_filename

\* variant: a later sequence of a model replaces the one assigned before
AssignedLast(sp, entry, isVH, isVL) ==
    IF isVH THEN [sp EXCEPT !.vh_sequence = entry.trimmed_seq]
    ELSE IF isVL THEN [sp EXCEPT !.vl_sequence = entry.trimmed_seq]
    ELSE sp
\* if (isVH && vh_sequence === null) ... else if (isVL && vl_sequence === null)
Assigned(sp, entry, isVH, isVL) ==
    IF isVH /\ sp.vh_sequence = Null
    THEN [sp EXCEPT !.vh_sequence = entry.trimmed_seq]
    ELSE IF isVL /\ sp.vl_sequence = Null
         THEN [sp EXCEPT !.vl_sequence = entry.trimmed_seq]
         ELSE sp

\* .on("data", (entry) => ...)
OnEntry(entry) ==
    /\ mode = "pairs" /\ cpc = "stream"
    /\ Len(mergedRows) < MaxMerged
    /\ mergedRows' = Append(mergedRows, entry)
    /\ LET isVH == Includes(entry.model_name, <<"v", "h">>)
           isVL == Includes(entry.model_name, <<"v", "l">>)
           key  == TargetFastqPair(entry)
           sp == IF MapHas(allSeqPairs, key) THEN MapGet(allSeqPairs, key)
                   ELSE [target_name |-> entry.target_name,
                         FASTQ_filename |-> entry.FASTQ_filename,
                         vh_sequence |-> Null, vl_sequence |-> Null]
       IN  allSeqPairs' = IF isVH \/ isVL
                          THEN MapSet(allSeqPairs, key,
                                      Assigned(sp, entry, isVH, isVL))
                          ELSE allSeqPairs
    /\ UNCHANGED <<cpc, pairCounts, notPairVars>>

\* pairCounts after the loop over the complete pairs ps[i..]
RECURSIVE PairCounts(_, _, _)
PairCounts(ps, i, counts) ==
    IF i > Len(ps) THEN counts
    ELSE LET k == ps[i].vh_sequence \o <<"_">> \o ps[i].vl_sequence
             init == IF MapHas(counts, k) THEN counts
                     ELSE MapSet(counts, k,
                                 [vh_sequence |-> ps[i].vh_sequence,
                                  vl_sequence |-> ps[i].vl_sequence,
                                  count |-> 0])
             old == MapGet(init, k)
         IN  PairCounts(ps, i + 1,
                        MapSet(init, k, [old EXCEPT !.count = old.count + 1]))

\* Object.values(allSeqPairs).filter(pair => pair.vh_sequence && pair.vl_sequence)
CompletePairs(pairs) ==
    LET Complete(e) == /\ e.val.vh_sequence # Null /\ Truthy(e.val.vh_sequence)
                       /\ e.val.vl_sequence # Null /\ Truthy(e.val.vl_sequence)
        sel == SelectSeq(pairs, Complete)
    IN  [i \in 1..Len(sel) |-> sel[i].val]

\* .on("end", () => ...): count, sort by descending count, resolve
OnEntriesEnd ==
    /\ mode = "pairs" /\ cpc = "stream"
    /\ pairCounts' = SortByCount(PairCounts(CompletePairs(allSeqPairs), 1, <<>>),
                                 1, <<>>)
    /\ cpc' = "done"
    /\ UNCHANGED <<mergedRows, allSeqPairs, notPairVars>>

InitPairs ==
    /\ mode = "pairs"
    /\ cpc = "stream" /\ mergedRows = <<>> /\ allSeqPairs = <<>>
    /\ pairCounts = <<>>
    /\ HitsIdle /\ StripIdle /\ CountIdle /\ LevIdle /\ MatchIdle /\ LoopIdle
    /\ ChildIdle

\* either program is run: the counts pipeline or main.js
InitBoth == InitIngest \/ InitPairs

NextBoth ==
    \/ NextIngest
    \/ \E entry \in MergedEntries : OnEntry(entry)
    \/ OnEntriesEnd

SpecBoth == InitBoth /\ [][NextBoth]_vars

(***************************************************************************)
(* Properties of hit selection and of the BED output                       *)
(***************************************************************************)
\* the canonical read id of the target ids of the input lines
Canonical(t) == IF t \in {ReadA1, ReadA2} THEN <<"A">> ELSE <<"B">>

\* a line that yields a hit record
LineIsRecord(l) == l.kind = "data" /\ l.ncols >= 23

\* the score column the running program reads
ScoreOf(l) == ParseFloat(IF prog = "counts" THEN l.c13 ELSE l.c7)

\* (hmm_to - hmm_from + 1) / qlen < t, for a positive model length
RatioBelow(l, t) ==
    /\ IsNum(ParseInt(l.c5)) /\ IsNum(ParseInt(l.c15)) /\ IsNum(ParseInt(l.c16))
    /\ Val(ParseInt(l.c5)) > 0
    /\ (Val(ParseInt(l.c16)) - Val(ParseInt(l.c15)) + 1) * t[2]
           < t[1] * Val(ParseInt(l.c5))

PassesFilter(l, t) == LineIsRecord(l) /\ ~RatioBelow(l, t)

\* entry e is the record of line l
SameHit(e, l) ==
    /\ e.target_name = l.c0
    /\ e.score = ScoreOf(l)
    /\ e.ali_from = ParseInt(l.c17)
    /\ e.ali_to = ParseInt(l.c18)

HitsDone(p) == mode = "hits" /\ prog = p /\ hpc = "done"

\* C2: in the counts pipeline the record written to the BED file for a
\* target has a score >= the score of every record of that target that
\* passed the coverage filter.
C2_BedHoldsBestScore ==
    HitsDone("counts") =>
        \A n \in 1..Len(bed) : \A i \in 1..Len(hits) :
            ( /\ PassesFilter(hits[i], coverage)
              /\ hits[i].c0 = bed[n].target_name
              /\ IsNum(ScoreOf(hits[i])) /\ IsNum(bed[n].score) )
            => Val(ScoreOf(hits[i])) <= Val(bed[n].score)

\* the group a record competes in: the id with the frame suffix stripped in
\* the matches pipeline, the target name in main.js
GroupOf(t) == IF prog = "matches" THEN Canonical(t) ELSE t
RecordsOf(g) ==
    {i \in 1..Len(hits) : LineIsRecord(hits[i]) /\ GroupOf(hits[i].c0) = g}
IsFirstMax(i, g) ==
    /\ i \in RecordsOf(g)
    /\ \A j \in RecordsOf(g) :
          /\ Val(ScoreOf(hits[j])) <= Val(ScoreOf(hits[i]))
          /\ j < i => Val(ScoreOf(hits[j])) < Val(ScoreOf(hits[i]))
AllScoresNumeric ==
    \A i \in 1..Len(hits) : LineIsRecord(hits[i]) => IsNum(ScoreOf(hits[i]))

\* C3: in the matches pipeline and in main.js, when all scores parse to
\* numbers, exactly one record is retained per group and it is the
\* first-seen record among those of the group with the maximal score.
C3_FirstSeenMaximum ==
    ( (HitsDone("matches") \/ HitsDone("main")) /\ AllScoresNumeric ) =>
        /\ Len(bed) = Len(bestEntries)
        /\ \A n \in 1..Len(bestEntries) :
              RecordsOf(GroupOf(bestEntries[n].val.target_name)) # {}
        /\ \A i \in 1..Len(hits) : LineIsRecord(hits[i]) =>
              LET g == GroupOf(hits[i].c0)
                  kept == {n \in 1..Len(bestEntries) :
                             GroupOf(bestEntries[n].val.target_name) = g}
              IN  /\ Cardinality(kept) = 1
                  /\ \A n \in kept : \E f \in RecordsOf(g) :
                        IsFirstMax(f, g) /\ SameHit(bestEntries[n].val, hits[f])

\* C3 witness: two frames of one read tie on the score in the matches
\* pipeline, with different alignments, and one record is retained.
C3_Witness ==
    /\ HitsDone("matches") /\ Len(hits) = 2 /\ Len(bed) = 1
    /\ LineIsRecord(hits[1]) /\ LineIsRecord(hits[2])
    /\ hits[1].c0 = ReadA1 /\ hits[2].c0 = ReadA2
    /\ IsNum(ScoreOf(hits[1])) /\ ScoreOf(hits[1]) = ScoreOf(hits[2])
    /\ hits[1].c17 # hits[2].c17

\* C4: in the counts pipeline the BED output holds at most one line per
\* canonical read id.
C4_OneBedLinePerRead ==
    HitsDone("counts") =>
        \A m, n \in 1..Len(bed) :
            Canonical(bed[m].target_name) = Canonical(bed[n].target_name)
                => m = n

\* C5: with threshold t a hit record is excluded exactly when
\* (hmm_to - hmm_from + 1) / qlen < t and retained otherwise, also when the
\* coverage equals t; with t = 0.5 and model length 10, span [1,6] and
\* span [1,5] are retained and span [1,4] is dropped.
C5_CoverageFilter ==
    (mode = "hits" /\ prog = "counts") =>
        \A i \in 1..Len(hits) : LineIsRecord(hits[i]) =>
            /\ (cands[i] = <<>>) <=> RatioBelow(hits[i], coverage)
            /\ ( /\ coverage = <<1, 2>> /\ hits[i].c5 = <<"1", "0">>
                 /\ hits[i].c15 = <<"1">> ) =>
                   /\ hits[i].c16 = <<"6">> => cands[i] # <<>>
                   /\ hits[i].c16 = <<"5">> => cands[i] # <<>>
                   /\ hits[i].c16 = <<"4">> => cands[i] = <<>>

\* C5 witness: at t = 0.5 a record with coverage exactly 0.5 was retained
\* and a record with coverage 0.4 was dropped.
C5_Witness ==
    /\ mode = "hits" /\ prog = "counts" /\ coverage = <<1, 2>>
    /\ Len(hits) = 2
    /\ LineIsRecord(hits[1]) /\ hits[1].c16 = <<"5">> /\ cands[1] # <<>>
    /\ LineIsRecord(hits[2]) /\ hits[2].c16 = <<"4">> /\ cands[2] = <<>>

\* C6: in the counts pipeline a target appears in the BED output if and
\* only if at least one of its records passes the coverage filter, and the
\* record output for it is one that passed the filter.
C6_OutputIffPasses ==
    HitsDone("counts") =>
        /\ {bed[n].target_name : n \in 1..Len(bed)} =
               {hits[i].c0 : i \in {j \in 1..Len(hits) :
                                       PassesFilter(hits[j], coverage)}}
        /\ Len(bed) = Len(bestEntries)
        /\ \A n \in 1..Len(bed) : \E i \in 1..Len(hits) :
              /\ PassesFilter(hits[i], coverage)
              /\ SameHit(bestEntries[n].val, hits[i])
              /\ bestEntries[n].val.hmm_to = ParseInt(hits[i].c16)
              /\ bed[n].target_name = hits[i].c0
              /\ bed[n].score = ScoreOf(hits[i])

\* C6 witness: a passing record is followed by a record of the same target
\* that fails the filter and has the higher score; the passing one is output.
C6_Witness ==
    /\ HitsDone("counts") /\ Len(hits) = 2 /\ Len(bed) = 1
    /\ PassesFilter(hits[1], coverage)
    /\ LineIsRecord(hits[2]) /\ ~PassesFilter(hits[2], coverage)
    /\ hits[1].c0 = hits[2].c0
    /\ JsLess(ScoreOf(hits[1]), ScoreOf(hits[2]))
    /\ bed[1].score = ScoreOf(hits[1])

\* C7: for every selected hit with integer 1 <= ali_from <= ali_to the BED
\* line of extractBestHMMHits (counts and matches pipelines) has
\* start = ali_from - 1 >= 0 and end = ali_to, so end - start =
\* ali_to - ali_from + 1, and carries the score of that same hit.
C7_BedCoordinates ==
    (HitsDone("counts") \/ HitsDone("matches")) =>
        /\ Len(bed) = Len(bestEntries)
        /\ \A n \in 1..Len(bed) :
              LET e == bestEntries[n].val
              IN  ( /\ IsNum(e.ali_from) /\ IsNum(e.ali_to)
                    /\ 1 <= Val(e.ali_from) /\ Val(e.ali_from) <= Val(e.ali_to) )
                  => /\ bed[n].start = Num(Val(e.ali_from) - 1)
                     /\ Val(bed[n].start) >= 0
                     /\ bed[n].end = e.ali_to
                     /\ Val(bed[n].end) - Val(bed[n].start)
                            = Val(e.ali_to) - Val(e.ali_from) + 1
                     /\ bed[n].score = e.score
                     /\ bed[n].target_name = e.target_name
                     /\ \E i \in 1..Len(hits) :
                           LineIsRecord(hits[i]) /\ SameHit(e, hits[i])

\* C7 witness: a hit aligned at [2,2] is written as the interval [1,2).
C7_Witness ==
    /\ HitsDone("matches")
    /\ \E n \in 1..Len(bed) :
          /\ bestEntries[n].val.ali_from = Num(2)
          /\ bed[n].start = Num(1) /\ bed[n].end = Num(2)
          /\ IsNum(bed[n].score)

\* C8: each frame-suffix stripping operation yields, applied twice, the
\* same id as applied once.
C8_StripIdempotent ==
    (mode = "strip" /\ stripN >= 2) => stripVal = stripPrev

(***************************************************************************)
(* Properties of the aggregation over models and of countSeqs              *)
(***************************************************************************)
ModelsOf(entries) == {entries[i].model : i \in 1..Len(entries)}

\* every model that occurs anywhere in seqMap
AllModelsIn(m) == UNION {ModelsOf(m[i].val) : i \in 1..Len(m)}

\* the reads of seqMap that hold a sequence for every model of the run
CompleteReads ==
    {i \in 1..Len(seqMap) : ModelsOf(seqMap[i].val) = AllModelsIn(seqMap)}

\* the model-to-sequence mapping a read holds: per model, the sequence of
\* its last entry
LastEntry(entries, model) ==
    entries[CHOOSE i \in 1..Len(entries) :
               /\ entries[i].model = model
               /\ \A j \in (i + 1)..Len(entries) : entries[j].model # model]
MappingOf(entries) ==
    {<<mo, LastEntry(entries, mo).sequence>> : mo \in ModelsOf(entries)}
MappingOfRead(key) == MappingOf(MapGet(seqMap, key))

ColumnsOf(row) == {<<row.columns[i].key, row.columns[i].val>> :
                      i \in 1..Len(row.columns)}

RECURSIVE SumCounts(_)
SumCounts(rs) == IF rs = <<>> THEN 0 ELSE Head(rs).Count + SumCounts(Tail(rs))

Counted == mode = "count" /\ mpc = "counted"

\* C1: a read whose entry list lacks a model that occurs anywhere in seqMap
\* contributes to no output row: no row lacks the sequence of a model, and
\* such a read is counted in no Count and not in Total_Count.
C1_IncompleteReadsDropped ==
    Counted =>
        /\ \A n \in 1..Len(rows) : \A mo \in AllModelsIn(seqMap) :
              MapHas(rows[n].columns, mo)
        /\ \A c \in 1..Len(contribs) :
              \E i \in CompleteReads : seqMap[i].key = contribs[c].read
        /\ SumCounts(rows) = Cardinality(CompleteReads)
        /\ \A n \in 1..Len(rows) :
              rows[n].Total_Count = Cardinality(CompleteReads)

\* the batch a key was built with: what follows its "|"
EndsWithBatch(key, batch) ==
    /\ Len(key) > Len(batch)
    /\ Slice(key, Len(key) - Len(batch), Len(key)) = <<"|">> \o batch

\* C9: two reads with the same canonical read id that come from batches
\* with different names are stored under different seqMap keys, their
\* entry lists are never merged, and countSeqs counts each of them as its
\* own contribution.
C9_BatchesKeptApart ==
    mode = "count" =>
        /\ \A g, h \in ingested : g.batch # h.batch => g.key # h.key
        /\ \A g \in ingested :
              /\ EndsWithBatch(g.key, g.batch)
              /\ \E i \in 1..Len(seqMap) :
                    /\ seqMap[i].key = g.key
                    /\ \E j \in 1..Len(seqMap[i].val) :
                          /\ seqMap[i].val[j].model = g.model
                          /\ seqMap[i].val[j].sequence = g.sequence
        /\ \A i \in 1..Len(seqMap) : \A j \in 1..Len(seqMap[i].val) :
              \E g \in ingested :
                  /\ g.key = seqMap[i].key
                  /\ g.model = seqMap[i].val[j].model
                  /\ g.sequence = seqMap[i].val[j].sequence
        /\ \A i, j \in 1..Len(seqMap) : seqMap[i].key = seqMap[j].key => i = j
        /\ Counted =>
              /\ \A i \in CompleteReads :
                    Cardinality({c \in 1..Len(contribs) :
                                    contribs[c].read = seqMap[i].key}) = 1
              /\ SumCounts(rows) = Len(contribs)
              /\ \A n \in 1..Len(rows) :
                    rows[n].Count >=
                        Cardinality({i \in CompleteReads :
                            MappingOf(seqMap[i].val) = ColumnsOf(rows[n])})

\* C9 witness: read A of batch p1 and read A of batch p2 hold the same
\* sequence, sit under two keys, and their row has Count 2.
C9_Witness ==
    /\ Counted /\ Len(seqMap) = 2 /\ Len(rows) = 1
    /\ TrimmedTargetName(seqMap[1].key) = TrimmedTargetName(seqMap[2].key)
    /\ EndsWithBatch(seqMap[1].key, <<"p", "1">>)
    /\ EndsWithBatch(seqMap[2].key, <<"p", "2">>)
    /\ seqMap[1].val = seqMap[2].val
    /\ rows[1].Count = 2

\* C10: all combination keys of one run are built with one ordering of the
\* model names: two counted reads that hold the same model-to-sequence
\* mapping are counted in the same row whatever the order in which their
\* entries were ingested, and two reads holding different mappings are
\* never counted in the same row.
C10_OneRowPerMapping ==
    Counted =>
        /\ \A a, b \in 1..Len(contribs) :
              (MappingOfRead(contribs[a].read) = MappingOfRead(contribs[b].read))
                  <=> (contribs[a].seqKey = contribs[b].seqKey)
        /\ \A i \in CompleteReads :
              \E c \in 1..Len(contribs) : contribs[c].read = seqMap[i].key
        /\ \A m, n \in 1..Len(rows) :
              ColumnsOf(rows[m]) = ColumnsOf(rows[n]) => m = n
        /\ \A n \in 1..Len(rows) :
              rows[n].Count =
                  Cardinality({c \in 1..Len(contribs) :
                      MappingOfRead(contribs[c].read) = ColumnsOf(rows[n])})
        /\ \A c \in 1..Len(contribs) : \E n \in 1..Len(rows) :
              ColumnsOf(rows[n]) = MappingOfRead(contribs[c].read)

\* C10 witness: two reads hold the same two-model mapping, ingested in
\* opposite model order, and are counted in one row.
C10_Witness ==
    /\ Counted /\ Len(seqMap) = 2 /\ Len(rows) = 1 /\ Len(contribs) = 2
    /\ Len(seqMap[1].val) = 2 /\ Len(seqMap[2].val) = 2
    /\ seqMap[1].val[1].model # seqMap[1].val[2].model
    /\ seqMap[1].val[1] = seqMap[2].val[2]
    /\ seqMap[1].val[2] = seqMap[2].val[1]
    /\ rows[1].Count = 2

\* C11: every returned row has Count >= 1, the same Total_Count,
\* Frequency = Count / Total_Count, and the Counts of all returned rows sum
\* to Total_Count.
C11_CountsSumToTotal ==
    Counted =>
        \A n \in 1..Len(rows) :
            /\ rows[n].Count >= 1
            /\ rows[n].Total_Count = rows[1].Total_Count
            /\ rows[n].Total_Count = SumCounts(rows)
            /\ rows[n].Frequency = <<rows[n].Count, rows[n].Total_Count>>

\* C11 witness: two rows with different Counts share Total_Count 3.
C11_Witness ==
    /\ Counted /\ Len(rows) = 2
    /\ rows[1].Count = 2 /\ rows[2].Count = 1
    /\ rows[1].Total_Count = 3 /\ rows[2].Total_Count = 3

\* position in the counting loop at which the combination of a row was
\* first encountered
FirstSeen(row) ==
    CHOOSE c \in 1..Len(contribs) :
        /\ MappingOfRead(contribs[c].read) = ColumnsOf(row)
        /\ \A b \in 1..(c - 1) :
              MappingOfRead(contribs[b].read) # ColumnsOf(row)

\* C12: the returned rows are ordered by non-increasing Count, and rows
\* with equal Count appear in the order in which their combination was
\* first encountered by the counting loop.
C12_RowsRanked ==
    Counted =>
        \A m, n \in 1..Len(rows) : m < n =>
            /\ rows[m].Count >= rows[n].Count
            /\ rows[m].Count = rows[n].Count
                  => FirstSeen(rows[m]) < FirstSeen(rows[n])

\* C12 witness: the row with the larger Count comes first although its
\* combination was encountered after that of the second row.
C12_Witness ==
    /\ Counted /\ Len(rows) = 2
    /\ rows[1].Count = 2 /\ rows[2].Count = 1
    /\ FirstSeen(rows[1]) > FirstSeen(rows[2])

(***************************************************************************)
(* Properties of the edit distance and of the closest matches              *)
(***************************************************************************)
\* the strings one insertion, deletion or substitution away from w
OneEdit(w) ==
    {SubSeq(w, 1, k) \o <<c>> \o SubSeq(w, k + 1, Len(w)) :
        k \in 0..Len(w), c \in Residues}
    \cup {SubSeq(w, 1, k - 1) \o SubSeq(w, k + 1, Len(w)) : k \in 1..Len(w)}
    \cup {SubSeq(w, 1, k - 1) \o <<c>> \o SubSeq(w, k + 1, Len(w)) :
        k \in 1..Len(w), c \in Residues}

\* the strings at most k edits away from w
RECURSIVE Within(_, _)
Within(w, k) ==
    IF k = 0 THEN {w}
    ELSE LET near == Within(w, k - 1)
         IN  near \cup UNION {OneEdit(v) : v \in near}

\* the minimum number of single-character edits that transform a into b
\* (deleting all of a and inserting all of b always does it)
MinEdits(a, b) ==
    CHOOSE k \in 0..(Len(a) + Len(b)) :
        /\ b \in Within(a, k)
        /\ k > 0 => b \notin Within(a, k - 1)

LevCalled == mode = "lev" /\ levDist # <<>>

\* C13: levenshteinDistance(a, b) equals the minimum number of
\* single-character insertions, deletions and substitutions that transform
\* a into b, for all strings including the empty one.
C13_LevenshteinIsMinimal ==
    LevCalled => levDist[1] = MinEdits(levA, levB)

\* C13 witness: a distance that needs a substitution and an insertion.
C13_Witness ==
    /\ LevCalled /\ levA = <<"Q", "K">> /\ levB = <<"K", "Q", "Q">>
    /\ levDist = <<2>>

\* C14: levenshteinDistance(a, a) = 0 and levenshteinDistance(a, b) =
\* levenshteinDistance(b, a).
C14_LevenshteinSymmetric ==
    LevCalled =>
        /\ levA = levB => levDist[1] = 0
        /\ levDist[1] = levenshteinDistance(levB, levA)
        /\ levenshteinDistance(levA, levA) = 0

\* C14 witness: arguments of different lengths, one of them empty.
C14_Witness ==
    /\ LevCalled /\ levA = <<>> /\ levB = <<"Q", "K">> /\ levDist = <<2>>

MatchDone == mode = "match" /\ fpc = "done"

\* a reference row that should be a candidate for query q: it holds a
\* non-empty sequence whose edit distance to q is within the threshold
\* (every distance is, when no threshold is given)
Qualifies(row, q) ==
    /\ row.has /\ row.seq # <<>>
    /\ maxLD # <<>> => MinEdits(q, row.seq) <= maxLD[1]

\* what identifies the row a candidate was made from
RowOf(cand) == <<cand.Matched_Seq, cand.Count>>
RowId(row) == <<row.seq, NumberOf(row.Count)>>

\* the candidates at distance d, and the qualifying rows at distance d,
\* each in their order
CandidatesAt(list, d) ==
    LET At(c) == c.Levenshtein_Dist = d
        sel == SelectSeq(list, At)
    IN  [i \in 1..Len(sel) |-> RowOf(sel[i])]
RowsAt(q, d) ==
    LET At(row) == Qualifies(row, q) /\ MinEdits(q, row.seq) = d
        sel == SelectSeq(csvRows, At)
    IN  [i \in 1..Len(sel) |-> RowId(sel[i])]

\* C15: for every query the candidate list is sorted by non-decreasing
\* Levenshtein_Dist, and candidates with equal distance appear in the row
\* order of the reference table.
C15_CandidatesSorted ==
    MatchDone =>
        \A k \in 1..Len(matchesMap) :
            LET q == matchesMap[k].key
                list == matchesMap[k].val
            IN  /\ \A m, n \in 1..Len(list) : m < n =>
                      list[m].Levenshtein_Dist <= list[n].Levenshtein_Dist
                /\ \A m \in 1..Len(list) :
                      CandidatesAt(list, list[m].Levenshtein_Dist)
                          = RowsAt(q, list[m].Levenshtein_Dist)

\* C15 witness: for query Q the table QK, Q, K gives the candidates Q, QK, K:
\* the exact match moves to the front and the two rows at distance 1 keep
\* their order.
C15_Witness ==
    /\ MatchDone /\ Len(csvRows) = 3 /\ Len(matchesMap) = 1
    /\ matchesMap[1].key = <<"Q">>
    /\ [i \in 1..3 |-> csvRows[i].seq] = <<(<<"Q", "K">>), (<<"Q">>), (<<"K">>)>>
    /\ Len(matchesMap[1].val) = 3
    /\ [i \in 1..3 |-> matchesMap[1].val[i].Matched_Seq]
           = <<(<<"Q">>), (<<"Q", "K">>), (<<"K">>)>>

\* C16: for every query and threshold T the candidate list holds exactly
\* the reference rows with a non-empty sequence whose edit distance to the
\* query is <= T, each once per occurrence, and every such row when no
\* threshold is given.
C16_ExactlyWithinThreshold ==
    MatchDone =>
        \A k \in 1..Len(matchesMap) :
            LET q == matchesMap[k].key
                list == matchesMap[k].val
            IN  /\ \A r \in RefRows :
                      Cardinality({m \in 1..Len(list) : RowOf(list[m]) = RowId(r)})
                        = IF Qualifies(r, q)
                          THEN Cardinality({i \in 1..Len(csvRows) : csvRows[i] = r})
                          ELSE 0
                /\ \A m \in 1..Len(list) :
                      /\ list[m].Levenshtein_Dist
                             = MinEdits(q, list[m].Matched_Seq)
                      /\ maxLD # <<>> => list[m].Levenshtein_Dist <= maxLD[1]
                      /\ list[m].Matched_Seq # <<>>

\* C16 witness: with threshold 1 and query Q, the row QQK at distance 2 is
\* left out and the row K at distance 1 is included.
C16_Witness ==
    /\ MatchDone /\ maxLD = Num(1) /\ Len(matchesMap) = 1
    /\ matchesMap[1].key = <<"Q">>
    /\ Len(csvRows) = 2
    /\ csvRows[1].seq = <<"Q", "Q", "K">> /\ csvRows[2].seq = <<"K">>
    /\ Len(matchesMap[1].val) = 1
    /\ matchesMap[1].val[1].Matched_Seq = <<"K">>
    /\ matchesMap[1].val[1].Levenshtein_Dist = 1

\* the rows of the table that hold the sequence column, in their order
RowsWithColumn ==
    LET Has(row) == row.has IN SelectSeq(csvRows, Has)

\* C17: a reference row that lacks the sequence column is skipped (with a
\* warning) and never becomes a candidate; the call still resolves, with a
\* list per query, and the candidates are those of the other rows.
C17_RowsWithoutColumnSkipped ==
    /\ mode = "match" =>
          /\ records = RowsWithColumn
          /\ warnings = Len(csvRows) - Len(RowsWithColumn)
    /\ MatchDone =>
          /\ {matchesMap[k].key : k \in 1..Len(matchesMap)}
                 = {queries.trimmed[i] : i \in 1..Len(queries.trimmed)}
          /\ \A k \in 1..Len(matchesMap) :
                LET q == matchesMap[k].key
                    list == matchesMap[k].val
                IN  /\ \A m \in 1..Len(list) : \E i \in 1..Len(csvRows) :
                          csvRows[i].has /\ RowId(csvRows[i]) = RowOf(list[m])
                    /\ Len(list) =
                          Cardinality({i \in 1..Len(csvRows) :
                                          Qualifies(csvRows[i], q)})

\* C17 witness: a row without the column sits between two matching rows;
\* it is warned about and both other rows are candidates.
C17_Witness ==
    /\ MatchDone /\ Len(csvRows) = 3 /\ warnings = 1
    /\ csvRows[1].has /\ ~csvRows[2].has /\ csvRows[3].has
    /\ Len(records) = 2
    /\ \A k \in 1..Len(matchesMap) : Len(matchesMap[k].val) = 2

\* C18: after any sequence of mapFastaSeqs passes the entry list stored in
\* seqMap for a read holds at most one entry per model name.
C18_OneEntryPerModel ==
    mode = "count" =>
        \A i \in 1..Len(seqMap) : \A j, k \in 1..Len(seqMap[i].val) :
            seqMap[i].val[j].model = seqMap[i].val[k].model => j = k

\* the numbers a program requires of a data line
RequiredNumbers(l) ==
    IF prog = "counts"
    THEN {ParseFloat(l.c13), ParseInt(l.c5), ParseInt(l.c15), ParseInt(l.c16),
          ParseInt(l.c17), ParseInt(l.c18)}
    ELSE {ParseFloat(l.c7), ParseInt(l.c17), ParseInt(l.c18)}

\* a data line with fewer than 23 fields or with a non-numeric value where
\* a number is required
Malformed(l) ==
    /\ l.kind = "data"
    /\ l.ncols < 23 \/ NaN \in RequiredNumbers(l)

\* C19: in extractBestHMMHits of both pipelines a malformed data line is
\* skipped: it yields no hit record, is never the record kept for a target
\* and never appears in the BED output.
C19_MalformedLinesSkipped ==
    (mode = "hits" /\ prog \in {"counts", "matches"}) =>
        /\ \A i \in 1..Len(hits) : Malformed(hits[i]) => cands[i] = <<>>
        /\ \A n \in 1..Len(bestEntries) :
              /\ IsNum(bestEntries[n].val.score)
              /\ IsNum(bestEntries[n].val.ali_from)
              /\ IsNum(bestEntries[n].val.ali_to)
        /\ \A n \in 1..Len(bed) :
              IsNum(bed[n].start) /\ IsNum(bed[n].end) /\ IsNum(bed[n].score)

\* the steps that come before step x in the order of the loop
StepsBefore(x) ==
    {<<u, t>> : u \in 1..x[1], t \in 1..Len(StepNames)} \ 
        {<<x[1], t>> : t \in x[2]..Len(StepNames)}

\* C20: the units are processed strictly one after another: at most one
\* step is at work at any time, every step that has started finds all the
\* steps before it (of its unit and of the units before) completed, and so
\* at most one unit is inside mapFastaSeqs; countSeqs is called when every
\* step of every unit has completed.
C20_UnitsOneAfterAnother ==
    mode = "loop" =>
        /\ Cardinality(running) <= 1
        /\ \A x \in running \cup completed : StepsBefore(x) \subseteq completed
        /\ Cardinality({x[1] : x \in {y \in running : StepNames[y[2]] = "map"}}) <= 1
        /\ lpc = "counting" =>
              /\ running = {}
              /\ completed = {<<u, t>> : u \in 1..Len(units),
                                          t \in 1..Len(StepNames)}

\* C20 witness: the translate step of the second unit is at work, and the
\* five steps of the first unit have completed.
C20_Witness ==
    /\ mode = "loop" /\ Len(units) >= 2
    /\ running = {<<2, 1>>}
    /\ completed = {<<1, t>> : t \in 1..Len(StepNames)}

\* C21: in every run of the counting pipeline countSeqs is invoked at most
\* once and only when no mapFastaSeqs pass is open or still to come, and from
\* its return to the return of writeCSV neither seqMap nor the rows change.
C21_CountSeqsOnceAtTheEnd ==
    [][/\ (rows' # rows \/ contribs' # contribs
            \/ (mpc # "counted" /\ mpc' = "counted"))
          => /\ mpc = "idle" /\ mpc' = "counted"
             /\ target_name = <<>> /\ currentSequence = <<>>
       /\ mpc \in {"counted", "written"}
          => /\ mpc' \in {"counted", "written"}
             /\ seqMap' = seqMap /\ rows' = rows /\ contribs' = contribs
       /\ csvOut' # csvOut
          => /\ mpc = "counted" /\ mpc' = "written"
             /\ Len(csvOut'.lines) = Len(rows)]_vars

\* C21 witness: the table of a run of two units (VH then VL of one batch)
\* is written: one row, whose read holds both models.
C21_Witness ==
    /\ mode = "count" /\ mpc = "written"
    /\ Len(seqMap) = 1 /\ Len(seqMap[1].val) = 2
    /\ Len(rows) = 1 /\ rows[1].Count = 1
    /\ Len(csvOut.lines) = 1 /\ Len(csvOut.headers) = 5

\* the steps that run an external program: seqkit split (step 0 of an input
\* pair), seqkit translate, hmmsearch and seqkit subseq
ExternalStep(x) ==
    x[2] = 0 \/ StepNames[x[2]] \in {"translate", "search", "trim"}

\* C22: when an external step exits with a non-zero code its promise is
\* rejected and main has thrown, so the error is with the caller of main; and
\* a table is written only by a run in which no step failed and every step
\* of every unit completed.
C22_FailureReachesCaller ==
    mode = "loop" =>
        /\ \A x \in rejected : ExternalStep(x) => lpc = "failed"
        /\ lpc \in {"counting", "written"} =>
              /\ rejected = {}
              /\ completed = {<<u, t>> : u \in 1..Len(units),
                                          t \in 1..Len(StepNames)}
              /\ Len(units) = Len(AllSplitUnits(inputPairs, 1, <<>>))

\* C22 witness: the first unit went through, hmmsearch of the second unit
\* exited with a non-zero code, and main has thrown.
C22_Witness ==
    /\ mode = "loop" /\ lpc = "failed"
    /\ rejected = {<<2, 2>>}
    /\ completed = {<<1, t>> : t \in 1..Len(StepNames)} \cup {<<2, 1>>}

\* C23: the write stream runHMMSearch opens on the stdout file is closed
\* some time after the hmmsearch process has exited, whatever its exit code.
C23_StdoutStreamEventuallyClosed ==
    (mode = "child" /\ callee = "runHMMSearch" /\ child = "exited")
        ~> (wstream = "closed")

\* C30: when the promise of fullSeqKit resolves, the file holds the complete
\* output of the child and the write stream of the Node process is closed.
C30_FileCompleteStreamClosed ==
    (mode = "child" /\ Translates /\ promise = "resolved") =>
        /\ file = emitted
        /\ wstream = "closed"

\* every candidate of a result list is a candidate of the query of the list
OwnList(key, list) ==
    \A c \in 1..Len(list) : list[c].Trimmed_Query_Seq = key

\* the result map once the scans of the first i queries are through
ScannedUpTo(i) ==
    MatchesMap(records,
               [original |-> queries.original,
                trimmed |-> SubSeq(queries.trimmed, 1, i)], maxLD, 1, <<>>)

\* C24: rows are read and records are added only while no scan has run, the
\* result lists are filled in the one step that ends the stream, the records
\* stay as they are from then on, and the scan of a query leaves the lists
\* of the other queries as they were and puts only its own candidates in its
\* list.
C24_ScansAfterReadKeepApart ==
    [][/\ (records' # records \/ csvRows' # csvRows)
          => /\ fpc = "stream" /\ fpc' = "stream"
             /\ matchesMap = <<>> /\ matchesMap' = <<>>
       /\ matchesMap' # matchesMap
          => /\ fpc = "stream" /\ fpc' = "done"
             /\ records' = records /\ csvRows' = csvRows
             /\ matchesMap' = ScannedUpTo(Len(queries.trimmed))
             /\ \A j \in 1..Len(matchesMap') :
                   OwnList(matchesMap'[j].key, matchesMap'[j].val)
             /\ \A i \in 1..Len(queries.trimmed) :
                   \A j \in 1..Len(ScannedUpTo(i - 1)) :
                      ScannedUpTo(i - 1)[j].key # queries.trimmed[i]
                         => ScannedUpTo(i)[j] = ScannedUpTo(i - 1)[j]]_vars

\* C24 witness: three rows were read, then the scans of two queries, Q and
\* QK, each left candidates in its own list.
C24_Witness ==
    /\ mode = "match" /\ fpc = "done"
    /\ Len(csvRows) = MaxRows /\ Len(records) >= 2
    /\ Len(matchesMap) = 2
    /\ matchesMap[1].key = <<"Q">> /\ matchesMap[2].key = <<"Q", "K">>
    /\ Len(matchesMap[1].val) >= 2 /\ Len(matchesMap[2].val) >= 2

\* C29: every trimmed query has its own entry in the result map, and the
\* candidates found for the trimmed query at position i carry the original
\* query at position i as Original_Query_Seq.
C29_CandidatesCarryTheirOriginal ==
    MatchDone =>
        /\ Len(matchesMap) = Len(queries.trimmed)
        /\ \A i \in 1..Len(queries.trimmed) :
              /\ matchesMap[i].key = queries.trimmed[i]
              /\ \A c \in 1..Len(matchesMap[i].val) :
                    matchesMap[i].val[c].Original_Query_Seq = queries.original[i]

\* the first record read for the canonical id g
FirstRecordOf(g) ==
    CHOOSE i \in RecordsOf(g) : \A j \in RecordsOf(g) : i <= j

\* C26: in the matches pipeline, at every point of the line loop, a record
\* whose score is NaN never replaces an incumbent (the retained record of a
\* canonical id is its first record or a record with a numeric score), and
\* when the first record of a canonical id has a NaN score it is the
\* retained one whatever came after it.
C26_NaNScoreNeverReplaces ==
    (mode = "hits" /\ prog = "matches") =>
        \A n \in 1..Len(bestEntries) :
            LET g == bestEntries[n].key
                e == bestEntries[n].val
            IN  /\ RecordsOf(g) # {}
                /\ \E j \in RecordsOf(g) :
                      /\ SameHit(e, hits[j])
                      /\ j = FirstRecordOf(g) \/ IsNum(ScoreOf(hits[j]))
                /\ ~IsNum(ScoreOf(hits[FirstRecordOf(g)]))
                      => SameHit(e, hits[FirstRecordOf(g)])

\* C26 witness: the first record of read A has a NaN score, a record of
\* another frame of A with score 12.3 follows, and the NaN record is the one
\* written.
C26_Witness ==
    /\ HitsDone("matches") /\ Len(hits) = 2 /\ Len(bed) = 1
    /\ LineIsRecord(hits[1]) /\ LineIsRecord(hits[2])
    /\ hits[1].c0 = ReadA1 /\ hits[2].c0 = ReadA2
    /\ hits[1].c7 = NotANumber /\ hits[2].c7 = ScoreHi
    /\ bed[1].target_name = ReadA1 /\ bed[1].score = NaN

\* the seqMap keys that pass the missing-model check: the read holds every
\* model that the reads up to it hold
PassedCheck ==
    {i \in 1..Len(seqMap) :
        \A j \in 1..i : ModelsOf(seqMap[j].val) \subseteq ModelsOf(seqMap[i].val)}

\* C28: every seqMap key that passes the missing-model check contributes
\* exactly once, to exactly one row, no other key contributes, and
\* Total_Count, the sum of the Counts, is the number of keys that passed;
\* keys that share a read id once the batch suffix is stripped count apart.
C28_OneContributionPerKey ==
    Counted =>
        /\ \A i \in PassedCheck :
              Cardinality({c \in 1..Len(contribs) :
                              contribs[c].read = seqMap[i].key}) = 1
        /\ \A c \in 1..Len(contribs) :
              /\ \E i \in PassedCheck : seqMap[i].key = contribs[c].read
              /\ Cardinality({n \in 1..Len(rows) :
                    ColumnsOf(rows[n]) = MappingOfRead(contribs[c].read)}) = 1
        /\ Len(contribs) = Cardinality(PassedCheck)
        /\ SumCounts(rows) = Cardinality(PassedCheck)
        /\ \A n \in 1..Len(rows) :
              rows[n].Total_Count = Cardinality(PassedCheck)

\* C28 witness: read A of batch p1 and read A of batch p2 pass the check and
\* are counted once each (Total_Count 2); a third key is skipped.
C28_Witness ==
    /\ Counted /\ Len(seqMap) = 3 /\ PassedCheck = {1, 2}
    /\ seqMap[1].key # seqMap[2].key
    /\ TrimmedTargetName(seqMap[1].key) = TrimmedTargetName(seqMap[2].key)
    /\ Len(contribs) = 2
    /\ Len(rows) >= 1 /\ rows[1].Total_Count = 2

\* seqMap with its keys in the order p (a permutation of 1..Len(seqMap))
Reordered(p) == [i \in 1..Len(seqMap) |-> seqMap[p[i]]]
KeyOrders ==
    {p \in [1..Len(seqMap) -> 1..Len(seqMap)] :
        \A i, j \in 1..Len(seqMap) : p[i] = p[j] => i = j}
\* the (combination, Count) pairs and the Total_Counts of a returned array
CountsOf(rs) ==
    {<<ColumnsOf(rs[n]), rs[n].Count, rs[n].Total_Count>> : n \in 1..Len(rs)}

\* C27: countSeqs returns the same (combination, Count) pairs and the same
\* Total_Count for seqMap and for seqMap with its keys in any other order.
C27_OrderOfReadsIrrelevant ==
    Counted =>
        \A p \in KeyOrders :
            CountsOf(CountSeqsRows(Reordered(p))) = CountsOf(rows)

\* the sequence of the first entry delivered for the read key with model
\* name mo, null when there is none
FirstSequence(key, mo) ==
    LET idx == {i \in 1..Len(mergedRows) :
                   /\ TargetFastqPair(mergedRows[i]) = key
                   /\ mergedRows[i].model_name = mo}
    IN  IF idx = {} THEN Null
        ELSE mergedRows[CHOOSE i \in idx : \A j \in idx : i <= j].trimmed_seq

\* C25: when a read holds several entries for one model, the counts
\* pipeline's countSeqs builds the read's combination from the sequence of
\* the last entry of each model, and main.js countSeqs keeps for each read
\* the sequence of its first VH entry and of its first VL entry.
C25_LastEntryVersusFirst ==
    /\ Counted =>
          \A c \in 1..Len(contribs) :
              LET entries == MapGet(seqMap, contribs[c].read)
              IN  /\ \A k \in 1..Len(contribs[c].sequences) :
                        contribs[c].sequences[k].val =
                            LastEntry(entries, contribs[c].sequences[k].key).sequence
                  /\ \A mo \in ModelsOf(entries) :
                        MapHas(contribs[c].sequences, mo)
                  /\ \E n \in 1..Len(rows) :
                        ColumnsOf(rows[n]) = MappingOf(entries)
    /\ mode = "pairs" =>
          /\ \A n \in 1..Len(allSeqPairs) :
                /\ allSeqPairs[n].val.vh_sequence
                       = FirstSequence(allSeqPairs[n].key, <<"V", "H">>)
                /\ allSeqPairs[n].val.vl_sequence
                       = FirstSequence(allSeqPairs[n].key, <<"V", "L">>)
          /\ \A i \in 1..Len(mergedRows) :
                mergedRows[i].model_name \in Models
                    => MapHas(allSeqPairs, TargetFastqPair(mergedRows[i]))
          /\ cpc = "done" =>
                \A r \in 1..Len(pairCounts) :
                    pairCounts[r].count =
                        Cardinality({n \in 1..Len(allSeqPairs) :
                            /\ FirstSequence(allSeqPairs[n].key, <<"V", "H">>)
                                   = pairCounts[r].vh_sequence
                            /\ FirstSequence(allSeqPairs[n].key, <<"V", "L">>)
                                   = pairCounts[r].vl_sequence})

\* C25 witness: in the counts pipeline a read holds two VH entries, Q then
\* K, and its row holds K.
C25_Witness ==
    /\ Counted /\ Len(seqMap) = 1 /\ Len(seqMap[1].val) = 2
    /\ seqMap[1].val[1].model = <<"V", "H">>
    /\ seqMap[1].val[2].model = <<"V", "H">>
    /\ seqMap[1].val[1].sequence = <<"Q">>
    /\ seqMap[1].val[2].sequence = <<"K">>
    /\ Len(rows) = 1 /\ ColumnsOf(rows[1]) = {<<(<<"V", "H">>), (<<"K">>)>>}

\* main.js beside it: a read with VH entries Q then K and a VL entry Q is
\* counted as the pair (Q, Q)
C25_MainKeepsFirst ==
    /\ mode = "pairs" /\ cpc = "done" /\ Len(mergedRows) = 3
    /\ Len(allSeqPairs) = 1
    /\ mergedRows[1].model_name = <<"V", "H">> /\ mergedRows[1].trimmed_seq = <<"Q">>
    /\ mergedRows[2].model_name = <<"V", "H">> /\ mergedRows[2].trimmed_seq = <<"K">>
    /\ mergedRows[3].model_name = <<"V", "L">>
    /\ Len(pairCounts) = 1 /\ pairCounts[1].vh_sequence = <<"Q">>
    /\ pairCounts[1].count = 1

====
